---- MODULE Spec2Model ----
(***************************************************************************)
(* MTProto bridge: the SessionManager (session records in the key-value    *)
(* store, with TTL and idle expiry) and the ConnectionManager (client      *)
(* sockets, per-datacenter upstream sockets, the asynchronous handlers     *)
(* that move frames between them).                                         *)
(*                                                                         *)
(* Every `await` on store or telemetry I/O is a suspension point: a        *)
(* handler is a sequence of steps, one per resumption, and steps of        *)
(* different handler invocations interleave freely.                        *)
(***************************************************************************)
EXTENDS Integers, Sequences, FiniteSets, TLC

\* ---------------------------------------------------------------- bounds
MaxClock == 3           \* seconds the wall clock may advance (store runs)
MaxStoreSessions == 1   \* sessions created through the session API
MaxCallers == 2         \* concurrent users of the SessionManager API
MaxSeqNo == 1           \* highest seqNo a caller's copy is advanced to
MaxFrames == 3          \* client frames received by the bridge (all connections)
MaxConn == 2            \* client connections accepted by the bridge
MaxUpMsg == 1           \* messages the datacenters send to the bridge
MaxBridgeClock == 1     \* seconds the wall clock may advance (bridge runs)
MaxKeyStep == 1         \* auth keys: chunk i is i * step, step in 0..MaxKeyStep
MaxBodyLen == 17        \* bytes of a message body given to the codec
MaxBodyByte == 1        \* byte values of such a body
MaxMessageId == 2       \* message ids given to the codec
MaxCodecSeqNo == 300    \* the nonzero sequence number given to the codec
MaxRequests == 4        \* /ws requests of the one client address
MaxIdClock == 2         \* seconds the clock may advance between calls of generateMessageId
MaxIds == 3             \* calls of generateMessageId
MaxIdMs == 2            \* single milliseconds that pass at the start of a second
MaxUser == 1            \* user ids given to createSession: 0..MaxUser
MaxIndexSessions == 2   \* sessions created for users
MaxIndexClock == 4      \* seconds the clock may advance (user index runs)
MaxControl == 2          \* textual control frames received
MaxRateCallers == 3      \* requests of one address checked at once
BlockBits == 2           \* bits of a cipher block
MaxCipherKey == 1        \* cipher keys: 0..MaxCipherKey
MaxBlocks == 2           \* blocks of the data enciphered
MaxSweepSessions == 3   \* session records in the store that is swept
MaxGateClock == 2       \* half rate-limit windows the gate's clock may advance
RATE_LIMIT_RPM == 2     \* env.RATE_LIMIT_RPM
MAX_CONNECTIONS_PER_IP == 2 \* env.MAX_CONNECTIONS_PER_IP

\* ------------------------------------------------------ program constants
MsPerSec == 1000        \* parseInt(SESSION_TIMEOUT) * 1000
SESSION_TIMEOUT == 2    \* env.SESSION_TIMEOUT, seconds
DefaultDc == 1          \* createSession(1), initializeSession dcId = 1
NumDc == 5              \* getTelegramEndpoint knows DC 1..5
MinFrameLen == 24       \* validateMTProtoMessage: data.length < 24
FrameAlign == 4         \* validateMTProtoMessage: data.length % 4 !== 0
FrameHeader == 24       \* decryptMessage: auth_key_id (8) and message_key (16)
CipherBlock == 16       \* padMessage: 16-byte boundary, the AES block
AuthKeyLen == 256       \* generateAuthKey: new Uint8Array(256)
ChunkBytes == 8         \* deriveKeys: x = isOutgoing ? 0 : 8
RateWindow == 60        \* checkRateLimit: window, seconds

SessionTimeoutMs == SESSION_TIMEOUT * MsPerSec
\* expirationTtl: parseInt(SESSION_TIMEOUT) * 2 (seconds), here in clock units
SessionTtlMs == SESSION_TIMEOUT * 2 * MsPerSec

MaxSid == MaxStoreSessions + 2 * MaxFrames
SessionIds == 1..MaxSid
Callers == 1..MaxCallers
Conns == 1..MaxConn
DcIds == 1..NumDc
\* lengths of the binary frames clients send: too short, misaligned, smallest valid
FrameLens == {MinFrameLen - FrameAlign, MinFrameLen + 2, MinFrameLen}

\* ---------------------------------------------------------------- state
VARIABLES
    clock,      \* Date.now(), in ms
    kv,         \* env.SESSIONS: session id -> [rec, exp]
    nextSid,    \* next fresh session id (generateSessionId, random 8 bytes)
    api,        \* SessionManager API callers: position and locals
    ret,        \* the result the SessionManager returned last
    born,       \* history: lastActivity a session was created with, -1 before create returned
    delIssued,  \* history: a deleteSession called through the API has removed the key
    maxSeqNo,   \* history: highest seqNo ever stored for the session
    saidInvalid, \* history: why validate last returned false ("absent", "expired"), "no"
                \* once a put of the session landed since
    wasValid,   \* history: validate has returned true for the session
    ws,         \* client sockets: "none", "open" (accepted), "closed"
    listening,  \* client sockets whose message/close listeners are registered
    sessions,   \* ConnectionManager.sessions: connection ids, in insertion order
    currentSession, \* the closure variable of each connection: a session record or Null
    closing,    \* close listener of each connection: position and the record it is storing
    up,         \* upstream sockets created so far: [state, dc]
    telegramSockets, \* ConnectionManager.telegramSockets: dc -> upstream socket, 0 if none
    tasks,      \* message-listener invocations, one per client frame, in arrival order
    upSent,     \* frames sent on upstream sockets, in order: <<socket, frame>>
    clientRecv, \* what each client socket was sent, in order
    upHandled,  \* datacenter messages handled by forwardTelegramMessage, in order
    codec,      \* one use of MTProtoProtocol: its inputs, the frame, what decrypt returned
    rateLimit,  \* store key rate_limit:<ip>: [present, count, timestamp]
    connInfo,   \* store key connection:<ip>: the ConnectionInfo stored
    req,        \* the /ws request being answered: position, locals, response
    msgIds,     \* the ids generateMessageId returned, in call order
    userIndex,  \* store keys session_index:<userId>: [ids, exp]
    userOf,     \* the userId field of each session record created, -1 before
    idx,        \* callers of createSession(dcId, userId) and deleteSession: position, locals
    deleted,    \* history: deleteSession(sessionId) has returned
    sweep,      \* cleanupExpiredSessions: position, locals, what it removed and returned
    ctl,        \* the textual control frames received: position, replies sent
    checks,     \* concurrent calls of checkRateLimit for one address: position, locals, result
    cipher,     \* one use of aesIgeEncrypt / aesIgeDecrypt: key, IV, blocks, the outputs
    wire        \* one 32-bit field written by createInnerData and read by parseInnerData

apiVars == <<api, ret, born, delIssued, maxSeqNo, saidInvalid, wasValid>>
bridgeVars == <<ws, listening, sessions, currentSession, closing, up, telegramSockets,
                tasks, upSent, clientRecv, upHandled>>
gateVars == <<rateLimit, connInfo, req>>
idVars == <<msgIds>>
indexVars == <<userIndex, userOf, idx, deleted>>
sweepVars == <<sweep>>
ctlVars == <<ctl>>
calcVars == <<checks, cipher, wire>>
libVars == <<codec, gateVars, idVars, indexVars, sweepVars, ctlVars, calcVars>>
vars == <<clock, kv, nextSid, apiVars, bridgeVars, libVars>>

\* ------------------------------------------------------------ the codec
\* A byte array is a sequence of byte values.  The auth key is kept as a sequence
\* of ChunkBytes-byte chunks (every offset the code slices it at is a multiple of
\* ChunkBytes).  SHA-256 and AES-256 are ideal: a digest is the term of its input,
\* a ciphertext is the term of its key, IV and plaintext, and deciphering under
\* another key, or a block that was altered, yields bytes unrelated to the
\* plaintext, written GarbledByte.

\* auth key generated so far: chunk i holds i * step, step 0 is a key of equal chunks
AuthKeys == {[i \in 1..(AuthKeyLen \div ChunkBytes) |-> i * step] : step \in 0..MaxKeyStep}

\* message bodies: n bytes of one value
Bodies == {[i \in 1..n |-> b] : n \in 0..MaxBodyLen, b \in 0..MaxBodyByte}

\* authKey.slice(lo, hi)
Slice(authKey, lo, hi) == SubSeq(authKey, lo \div ChunkBytes + 1, hi \div ChunkBytes)

\* CryptoJS.SHA256(data) as bytes
Sha256(data) == [sha256 |-> data]

\* hashBytes.slice(lo, hi)
HashSlice(hash, lo, hi) == [of |-> hash, lo |-> lo, hi |-> hi]

GarbledByte == -1

Min(a, b) == IF a < b THEN a ELSE b

\* a number as n bytes, least significant first: (v >>> 8i) & 0xff
RECURSIVE LEBytes(_, _)
LEBytes(v, n) == IF n = 0 THEN << >> ELSE <<v % 256>> \o LEBytes(v \div 256, n - 1)

\* bytes[0] | bytes[1] << 8 | ... as an unsigned number; a missing byte counts 0
RECURSIVE LEValue(_)
LEValue(bytes) == IF bytes = << >> THEN 0 ELSE bytes[1] + 256 * LEValue(Tail(bytes))

\* the session id, 16 hex digits, as 8 bytes, most significant first
BEBytes(v, n) == [i \in 1..n |-> LEBytes(v, n)[n + 1 - i]]

\* data.slice(lo, lo + n)
Field(data, lo, n) == SubSeq(data, lo + 1, Min(lo + n, Len(data)))

IsGarbled(bytes) == \E i \in 1..Len(bytes) : bytes[i] = GarbledByte

\* the four bytes of seqNo or length read back with |, <<: a signed 32-bit number
Int32LE(bytes) ==
    IF IsGarbled(bytes) THEN GarbledByte
    ELSE IF Len(bytes) = 4 /\ bytes[4] >= 128
         THEN LEValue(SubSeq(bytes, 1, 3)) + (bytes[4] - 256) * 16777216
         ELSE LEValue(bytes)

\* the eight bytes of messageId read back into a BigInt, printed in decimal
UInt64LE(bytes) == IF IsGarbled(bytes) THEN GarbledByte ELSE LEValue(bytes)

\* createMessageKey: the middle 16 bytes of SHA256(authKey[88..120) ++ message)
CreateMessageKey(authKey, message) ==
    HashSlice(Sha256(<<Slice(authKey, 88, 120), message>>), 8, 24)

\* deriveKeys
DeriveKeys(authKey, messageKey, isOutgoing) ==
    LET x == IF isOutgoing THEN 0 ELSE 8
        hashA == Sha256(<<messageKey, Slice(authKey, x, x + 32)>>)
        hashB == Sha256(<<Slice(authKey, x + 32, x + 48), messageKey,
                          Slice(authKey, x + 48, x + 64)>>)
    IN  [aesKey |-> <<HashSlice(hashA, 0, 8), HashSlice(hashB, 8, 24), HashSlice(hashA, 24, 32)>>,
         aesIv |-> <<HashSlice(hashB, 0, 8), HashSlice(hashA, 8, 24), HashSlice(hashB, 24, 32)>>]

\* createInnerData: salt, session id, message id, seqNo, length, body
CreateInnerData(serverSalt, sessionId, messageId, seqNo, message) ==
    serverSalt \o BEBytes(sessionId, 8) \o LEBytes(messageId, 8) \o LEBytes(seqNo, 4)
        \o LEBytes(Len(message), 4) \o message

\* parseInnerData
ParseInnerData(data) ==
    LET length == Int32LE(Field(data, 28, 4))
    IN  [messageId |-> UInt64LE(Field(data, 16, 8)),
         seqNo |-> Int32LE(Field(data, 24, 4)),
         body |-> IF length = GarbledByte THEN <<GarbledByte>>
                  ELSE Field(data, 32, length)]

\* faulty variant: no padding when the data already ends on a 16-byte boundary
PadToBoundary(data, padByte) ==
    data \o [i \in 1..((CipherBlock - (Len(data) % CipherBlock)) % CipherBlock) |-> padByte]

\* padMessage: 1..16 random bytes up to the next 16-byte boundary
PadMessage(data, padByte) ==
    data \o [i \in 1..(CipherBlock - (Len(data) % CipherBlock)) |-> padByte]

\* a bit of a byte inverted
FlipBit(byte) == IF byte % 2 = 0 THEN byte + 1 ELSE byte - 1

\* aesIgeEncrypt: CryptoJS.AES.encrypt in CBC mode, no padding; flips are the
\* <<block, byte>> positions of the ciphertext altered since
AesIgeEncrypt(data, key, iv) == [key |-> key, iv |-> iv, plain |-> data, flips |-> {}]

\* aesIgeDecrypt: CryptoJS.AES.decrypt in CBC mode.  Block b is D(c[b]) XOR c[b-1]:
\* garbled under another key and where c[b] was altered, its first block garbled
\* under another IV, and carrying the inverted bits of an altered c[b-1]
AesIgeDecrypt(data, key, iv) ==
    [i \in 1..Len(data.plain) |->
        LET b == (i - 1) \div CipherBlock + 1
            j == ((i - 1) % CipherBlock) + 1
        IN  IF key # data.key \/ (\E f \in data.flips : f[1] = b) THEN GarbledByte
            ELSE IF b = 1 /\ iv # data.iv THEN GarbledByte
            ELSE IF <<b - 1, j>> \in data.flips THEN FlipBit(data.plain[i])
            ELSE data.plain[i]]

\* encryptMessage: auth_key_id ++ message_key ++ encrypted_data
EncryptMessage(message, authKey, serverSalt, sessionId, messageId, seqNo, padByte) ==
    LET messageKey == CreateMessageKey(authKey, message)
        keys == DeriveKeys(authKey, messageKey, TRUE)
        innerData == CreateInnerData(serverSalt, sessionId, messageId, seqNo, message)
        paddedData == PadMessage(innerData, padByte)
        encrypted == AesIgeEncrypt(paddedData, keys.aesKey, keys.aesIv)
    IN  [len |-> FrameHeader + Len(paddedData), raw |-> FALSE,
         authKeyId |-> Slice(authKey, 0, 8), messageKey |-> messageKey,
         encrypted |-> encrypted]

\* what a call of the codec gave back: a message, or a thrown MTProtoError
NoOutcome == [status |-> "none", type |-> "", messageId |-> 0, seqNo |-> 0, body |-> << >>]
Thrown(type) == [NoOutcome EXCEPT !.status = "error", !.type = type]
Message(m) ==
    [status |-> "message", type |-> "", messageId |-> m.messageId, seqNo |-> m.seqNo,
     body |-> m.body]

\* the bytes CryptoJS deciphers from a frame that encryptMessage did not make
GarbledData(n) == [i \in 1..n |-> GarbledByte]

\* decryptMessage.  The INVALID_MESSAGE error thrown inside the try block is caught
\* by its catch and thrown again as DECRYPTION_ERROR.
DecryptMessage(encryptedMessage, authKey) ==
    IF encryptedMessage.len < FrameHeader THEN Thrown("DECRYPTION_ERROR")
    ELSE LET messageKey == encryptedMessage.messageKey
             keys == DeriveKeys(authKey, messageKey, FALSE)
             decrypted == IF encryptedMessage.raw
                          THEN GarbledData(encryptedMessage.len - FrameHeader)
                          ELSE AesIgeDecrypt(encryptedMessage.encrypted, keys.aesKey, keys.aesIv)
         IN  Message(ParseInnerData(decrypted))

\* bytes that encryptMessage did not make, n of them
RawFrame(n, authKey) ==
    [len |-> n, raw |-> TRUE, authKeyId |-> Slice(authKey, 0, 8),
     messageKey |-> CreateMessageKey(authKey, << >>),
     encrypted |-> AesIgeEncrypt(<< >>, << >>, << >>)]

\* lengths of such frames: short, misaligned, a bare header, whole cipher blocks
RawLens == {FrameHeader - FrameAlign, FrameHeader - 1, FrameHeader, FrameHeader + 2,
            FrameHeader + CipherBlock}

\* generateServerSalt: 8 bytes
ServerSalt == [i \in 1..8 |-> 0]

ZeroKey == [i \in 1..(AuthKeyLen \div ChunkBytes) |-> 0]

NoCodec ==
    [pc |-> "off", authKey |-> ZeroKey, sessionId |-> 0, messageId |-> 0, seqNo |-> 0,
     body |-> << >>, padByte |-> 0, frame |-> RawFrame(0, ZeroKey), altered |-> FALSE,
     declared |-> 0, out |-> NoOutcome]

InitLib ==
    /\ codec = NoCodec

\* the caller's arguments: a generated auth key, a session id, a message id, a
\* sequence number, a body
CodecInputs ==
    {[NoCodec EXCEPT !.pc = "input", !.authKey = k, !.frame = RawFrame(0, k),
                     !.sessionId = 1, !.messageId = m, !.seqNo = q, !.body = b, !.padByte = p] :
        k \in AuthKeys, m \in 1..MaxMessageId, q \in {0, MaxCodecSeqNo}, b \in Bodies,
        p \in {0, 255}}

\* encryptMessage(body, authKey, serverSalt, sessionId, messageId, seqNo)
EncryptMessageCall ==
    /\ codec.pc = "input"
    /\ codec' = [codec EXCEPT !.pc = "framed",
                    !.frame = EncryptMessage(codec.body, codec.authKey, ServerSalt,
                                             codec.sessionId, codec.messageId, codec.seqNo,
                                             codec.padByte)]
    /\ UNCHANGED <<clock, kv, nextSid, apiVars, bridgeVars, gateVars, idVars, indexVars, sweepVars, ctlVars, calcVars>>

\* one bit of the frame's ciphertext is inverted on the way
AlterCiphertext(b, j) ==
    /\ codec.pc = "framed"
    /\ ~codec.frame.raw
    /\ ~codec.altered
    /\ b \in 1..(Len(codec.frame.encrypted.plain) \div CipherBlock)
    /\ codec' = [codec EXCEPT !.altered = TRUE, !.frame.encrypted.flips = {<<b, j>>}]
    /\ UNCHANGED <<clock, kv, nextSid, apiVars, bridgeVars, gateVars, idVars, indexVars, sweepVars, ctlVars, calcVars>>

\* the caller holds bytes of its own instead of a frame of encryptMessage
TakeRawFrame(n) ==
    /\ codec.pc = "input"
    /\ codec' = [codec EXCEPT !.pc = "framed", !.frame = RawFrame(n, codec.authKey)]
    /\ UNCHANGED <<clock, kv, nextSid, apiVars, bridgeVars, gateVars, idVars, indexVars, sweepVars, ctlVars, calcVars>>

\* decryptMessage(frame, authKey).  What CryptoJS does with a ciphertext that is not
\* whole blocks is its own: it returns bytes or throws, and decryptMessage wraps
\* whatever is thrown in DECRYPTION_ERROR.
DecryptMessageCall ==
    /\ codec.pc = "framed"
    /\ \E out \in {DecryptMessage(codec.frame, codec.authKey)} \cup
                  (IF codec.frame.len >= FrameHeader
                      /\ (codec.frame.len - FrameHeader) % CipherBlock # 0
                   THEN {Thrown("DECRYPTION_ERROR")} ELSE {}) :
          codec' = [codec EXCEPT !.pc = "done", !.out = out]
    /\ UNCHANGED <<clock, kv, nextSid, apiVars, bridgeVars, gateVars, idVars, indexVars, sweepVars, ctlVars, calcVars>>

\* decrypted bytes whose length field says `declared`: the header and body of the
\* caller's message, padded, as a peer holding the key can have sent them
InnerDataDeclaring(c, declared) ==
    PadMessage(ServerSalt \o BEBytes(c.sessionId, 8) \o LEBytes(c.messageId, 8)
                   \o LEBytes(c.seqNo, 4) \o LEBytes(declared, 4) \o c.body,
               c.padByte)

\* the length fields tried: the body's own length, and more than the bytes that follow
\* the header (the body and at most 16 bytes of padding)
DeclaredLens(c) == {Len(c.body), Len(c.body) + CipherBlock + 1}

\* parseInnerData(data): it has no throw statement, what it returns is the outcome
ParseInnerDataCall(declared) ==
    /\ codec.pc = "input"
    /\ declared \in DeclaredLens(codec)
    /\ codec' = [codec EXCEPT !.pc = "parsed", !.declared = declared,
                    !.out = Message(ParseInnerData(InnerDataDeclaring(codec, declared)))]
    /\ UNCHANGED <<clock, kv, nextSid, apiVars, bridgeVars, gateVars, idVars, indexVars, sweepVars, ctlVars, calcVars>>

\* ------------------------------------------------------- the abuse gate
\* One client address; its requests for /ws come one after the other.  The store
\* keys of the gate: rate_limit:<ip> and connection:<ip>.  Each awaited store
\* operation is a step, and each may fail.

NoRequest ==
    [pc |-> "idle", n |-> 0, bot |-> FALSE, count |-> 0, timestamp |-> 0,
     rlFailed |-> FALSE, cpFailed |-> FALSE, conn |-> 0, response |-> 0, refusedBy |-> "none"]

InitGate ==
    /\ rateLimit = [present |-> FALSE, count |-> 0, timestamp |-> 0]
    /\ connInfo = [connectionCount |-> 0, bot |-> FALSE]
    /\ req = NoRequest

\* faulty variant: the check refuses when the store fails
RefuseOnError == FALSE

\* checkRateLimit, catch: return true (allow on error)
AllowOnError == TRUE

\* getConnectionInfo when the key is absent or the get fails
DefaultConnectionInfo == [connectionCount |-> 0, bot |-> FALSE]

\* the gate's clock: half a rate-limit window passes
GateTick ==
    /\ clock < MaxGateClock * (RateWindow \div 2) * MsPerSec
    /\ clock' = clock + (RateWindow \div 2) * MsPerSec
    /\ UNCHANGED <<kv, nextSid, apiVars, bridgeVars, codec, idVars, indexVars, sweepVars, gateVars, ctlVars, calcVars>>

\* handleRequest for /ws up to `await this.env.SESSIONS.get(key)` of checkRateLimit
RequestArrives(bot) ==
    /\ req.pc \in {"idle", "done"}
    /\ req.n < MaxRequests
    /\ req' = [NoRequest EXCEPT !.pc = "rl_get", !.n = req.n + 1, !.bot = bot]
    /\ UNCHANGED <<clock, kv, nextSid, apiVars, bridgeVars, codec, idVars, indexVars, sweepVars,
                   rateLimit, connInfo, ctlVars, calcVars>>

\* checkRateLimit after the get: the window is reset if it has passed, the limit is
\* tested, the counter incremented, up to the put.  A refusal is thrown as
\* RateLimitError by handleRequest and answered 429 by its catch.
RateLimitGet(fails) ==
    /\ req.pc = "rl_get"
    /\ IF fails
       THEN req' = IF AllowOnError
                   THEN [req EXCEPT !.pc = "cp_get", !.rlFailed = TRUE]
                   ELSE [req EXCEPT !.pc = "done", !.rlFailed = TRUE, !.response = 429,
                                    !.refusedBy = "rate"]
       ELSE LET current == IF rateLimit.present THEN rateLimit
                           ELSE [present |-> TRUE, count |-> 0, timestamp |-> clock]
                data == IF clock - current.timestamp >= RateWindow * MsPerSec
                        THEN [current EXCEPT !.count = 0, !.timestamp = clock]
                        ELSE current
            IN  IF data.count >= RATE_LIMIT_RPM
                THEN req' = [req EXCEPT !.pc = "done", !.response = 429, !.refusedBy = "rate"]
                ELSE req' = [req EXCEPT !.pc = "rl_put", !.count = data.count + 1,
                                        !.timestamp = data.timestamp]
    /\ UNCHANGED <<clock, kv, nextSid, apiVars, bridgeVars, codec, idVars, indexVars, sweepVars,
                   rateLimit, connInfo, ctlVars, calcVars>>

\* checkRateLimit: the put lands or fails; the request is routed to fetch, up to
\* the get of getConnectionInfo
RateLimitPut(fails) ==
    /\ req.pc = "rl_put"
    /\ IF fails
       THEN /\ req' = IF AllowOnError
                      THEN [req EXCEPT !.pc = "cp_get", !.rlFailed = TRUE]
                      ELSE [req EXCEPT !.pc = "done", !.rlFailed = TRUE, !.response = 429,
                                       !.refusedBy = "rate"]
            /\ UNCHANGED rateLimit
       ELSE /\ rateLimit' = [present |-> TRUE, count |-> req.count, timestamp |-> req.timestamp]
            /\ req' = [req EXCEPT !.pc = "cp_get"]
    /\ UNCHANGED <<clock, kv, nextSid, apiVars, bridgeVars, codec, idVars, indexVars, sweepVars, connInfo, ctlVars, calcVars>>

\* checkConnectionPermission after getConnectionInfo: the connection count is tested;
\* fetch answers a refusal with 429
ConnInfoGet(fails) ==
    /\ req.pc = "cp_get"
    /\ LET connectionInfo == IF fails THEN DefaultConnectionInfo ELSE connInfo
       IN  IF connectionInfo.connectionCount >= MAX_CONNECTIONS_PER_IP
           THEN req' = [req EXCEPT !.pc = "done", !.response = 429, !.refusedBy = "connections",
                                   !.cpFailed = @ \/ fails]
           ELSE req' = [req EXCEPT !.pc = "cp_put", !.cpFailed = @ \/ fails,
                                   !.count = connectionInfo.connectionCount + 1]
    /\ UNCHANGED <<clock, kv, nextSid, apiVars, bridgeVars, codec, idVars, indexVars, sweepVars,
                   rateLimit, connInfo, ctlVars, calcVars>>

\* checkConnectionPermission: updateConnectionInfo's put lands or fails, true is
\* returned, up to the get of detectSuspiciousActivity
ConnInfoPut(fails) ==
    /\ req.pc = "cp_put"
    /\ connInfo' = IF fails THEN connInfo
                   ELSE [connectionCount |-> req.count, bot |-> req.bot]
    /\ req' = [req EXCEPT !.pc = "sus_get", !.cpFailed = @ \/ fails]
    /\ UNCHANGED <<clock, kv, nextSid, apiVars, bridgeVars, codec, idVars, indexVars, sweepVars, rateLimit, ctlVars, calcVars>>

\* detectSuspiciousActivity: 30 for a connection count above 0.8 of the maximum, 20
\* for a stored user agent that looks like a robot's (rateLimitCounter is never
\* written and stays 0); suspicious from 50
RiskScore(connectionInfo) ==
    (IF connectionInfo.connectionCount * 10 > MAX_CONNECTIONS_PER_IP * 8 THEN 30 ELSE 0)
        + (IF connectionInfo.bot THEN 20 ELSE 0)

\* fetch after detectSuspiciousActivity: a suspicious address is answered 403
SuspiciousGet(fails) ==
    /\ req.pc = "sus_get"
    /\ LET connectionInfo == IF fails THEN DefaultConnectionInfo ELSE connInfo
       IN  IF RiskScore(connectionInfo) >= 50
           THEN req' = [req EXCEPT !.pc = "done", !.response = 403, !.refusedBy = "suspicious"]
           ELSE req' = [req EXCEPT !.pc = "accept"]
    /\ UNCHANGED <<clock, kv, nextSid, apiVars, bridgeVars, codec, idVars, indexVars, sweepVars,
                   rateLimit, connInfo, ctlVars, calcVars>>

\* faulty variant: the socket pair is made and accepted before the security checks
FetchAcceptFirst(c) ==
    /\ req.pc \in {"cp_get", "accept"}
    /\ req.conn = 0
    /\ ws[c] = "none"
    /\ \A d \in Conns : d < c => ws[d] # "none"
    /\ ws' = [ws EXCEPT ![c] = "open"]
    /\ req' = IF req.pc = "accept" THEN [req EXCEPT !.pc = "done", !.conn = c, !.response = 101]
              ELSE [req EXCEPT !.conn = c]
    /\ UNCHANGED <<clock, kv, nextSid, apiVars, listening, sessions, currentSession, closing,
                   up, telegramSockets, tasks, upSent, clientRecv, upHandled, codec,
                   idVars, indexVars, sweepVars, rateLimit, connInfo, ctlVars, calcVars>>

\* fetch, all checks passed: the socket pair is made, the server socket accepted,
\* handleWebSocketConnection started, and 101 answered
FetchAllowed(c) ==
    /\ req.pc = "accept"
    /\ ws[c] = "none"
    /\ \A d \in Conns : d < c => ws[d] # "none"
    /\ ws' = [ws EXCEPT ![c] = "open"]
    /\ req' = [req EXCEPT !.pc = "done", !.conn = c, !.response = 101]
    /\ UNCHANGED <<clock, kv, nextSid, apiVars, listening, sessions, currentSession, closing,
                   up, telegramSockets, tasks, upSent, clientRecv, upHandled, codec,
                   idVars, indexVars, sweepVars, rateLimit, connInfo, ctlVars, calcVars>>

\* ------------------------------------------------------------ message ids
\* seconds * 2^32 + nanoseconds is computed in double precision: at today's
\* magnitude (2^62 .. 2^63) a double holds multiples of 1024, so the sum is the
\* seconds term, itself such a multiple, plus the nanoseconds rounded to the
\* nearest multiple of 1024, ties to the even one
ToDouble(nanoseconds) ==
    LET q == nanoseconds \div 1024
        r == nanoseconds % 1024
    IN  IF r < 512 \/ (r = 512 /\ q % 2 = 0) THEN q * 1024 ELSE (q + 1) * 1024

\* generateMessageId at Date.now() = now; the id seconds * 2^32 + low is kept as
\* <<seconds, low>>, low < 2^32
GenerateMessageId(now) ==
    LET seconds == now \div MsPerSec
        nanoseconds == (now % MsPerSec) * 1000000
    IN  <<seconds, ToDouble(nanoseconds)>>

\* id a < id b
IdLess(a, b) == a[1] < b[1] \/ (a[1] = b[1] /\ a[2] < b[2])

InitIds ==
    /\ msgIds = << >>

\* a millisecond passes (early in a second, or at its last millisecond), or the
\* clock reaches the last millisecond of the second
IdTick(d) ==
    /\ clock + d <= MaxIdClock * MsPerSec
    /\ \/ d = 1 /\ (clock % MsPerSec < MaxIdMs \/ clock % MsPerSec = MsPerSec - 1)
       \/ d > 1 /\ (clock + d) % MsPerSec = MsPerSec - 1
    /\ clock' = clock + d
    /\ UNCHANGED <<kv, nextSid, apiVars, bridgeVars, codec, gateVars, idVars, indexVars, sweepVars, ctlVars, calcVars>>

\* a call of generateMessageId
GenerateMessageIdCall ==
    /\ Len(msgIds) < MaxIds
    /\ msgIds' = Append(msgIds, GenerateMessageId(clock))
    /\ UNCHANGED <<clock, kv, nextSid, apiVars, bridgeVars, codec, gateVars, indexVars, sweepVars, ctlVars, calcVars>>

\* ------------------------------------------------------------ the store
Null == [sessionId |-> 0, dcId |-> 0, seqNo |-> 0, lastActivity |-> 0]
Absent == [rec |-> Null, exp |-> 0]

\* createSession: the record built before it is stored (seqNo: 0, lastActivity: Date.now())
NewSession(sid, dcId, now) ==
    [sessionId |-> sid, dcId |-> dcId, seqNo |-> 0, lastActivity |-> now]

\* env.SESSIONS.get: a key whose TTL has run out reads as absent
KvGet(store, sid, now) ==
    IF store[sid].rec # Null /\ now < store[sid].exp THEN store[sid].rec ELSE Null

\* getSession: the stored record, or null
GetSession(store, sid, now) == KvGet(store, sid, now)

\* faulty variant: the record's TTL is the idle timeout itself
StoreSessionShortTtl(store, session, now) ==
    [store EXCEPT ![session.sessionId] = [rec |-> session, exp |-> now + SessionTimeoutMs]]

\* storeSession: a blind put of the caller's whole record, TTL twice the timeout
StoreSession(store, session, now) ==
    [store EXCEPT ![session.sessionId] = [rec |-> session, exp |-> now + SessionTtlMs]]

\* env.SESSIONS.delete
KvDelete(store, sid) == [store EXCEPT ![sid] = Absent]

\* faulty variant: the idle time in ms compared with the timeout in seconds
IsExpiredSeconds(session, now) == (now - session.lastActivity) > SESSION_TIMEOUT

\* (now - session.lastActivity) > sessionTimeout
IsExpired(session, now) == (now - session.lastActivity) > SessionTimeoutMs

Max(a, b) == IF a >= b THEN a ELSE b

\* history kept at every put of a session record
NotePut(session) ==
    /\ maxSeqNo' = [maxSeqNo EXCEPT ![session.sessionId] = Max(@, session.seqNo)]
    /\ saidInvalid' = [saidInvalid EXCEPT ![session.sessionId] = "no"]

IdleCaller == [pc |-> "idle", op |-> "none", sid |-> 0, arg |-> Null, held |-> Null]
NoResult == [op |-> "none", sid |-> 0, value |-> "none", seen |-> -1, at |-> 0, afterInvalid |-> "no"]

\* a returned result; seen: the lastActivity of the record the operation read, -1 if none
Result(op, sid, value, session, afterInvalid) ==
    [op |-> op, sid |-> sid, value |-> value,
     seen |-> IF session = Null THEN -1 ELSE session.lastActivity,
     at |-> IF op = "validate" THEN clock ELSE 0,
     afterInvalid |-> afterInvalid]

NoClose == [pc |-> "none", rec |-> Null]

\* ------------------------------------------------- the user session index
\* Sessions created for a user: the record carries userId, and the store key
\* session_index:<userId> holds the list of the user's session ids.  Each awaited
\* store operation of createSession and deleteSession is a step.

Users == 0..MaxUser

NoIndex == [ids |-> << >>, exp |-> 0]

IdleIndexCaller == [pc |-> "idle", sid |-> 0, userId |-> -1, ids |-> << >>]

InitIndex ==
    /\ userIndex = [u \in Users |-> NoIndex]
    /\ userOf = [s \in SessionIds |-> -1]
    /\ idx = [p \in Callers |-> IdleIndexCaller]
    /\ deleted = [s \in SessionIds |-> FALSE]

\* env.SESSIONS.get of the index key: null once its TTL has run out
IndexGet(u, now) ==
    IF userIndex[u].exp > now THEN userIndex[u] ELSE NoIndex

IndexPresent(u, now) == userIndex[u].exp > now

\* sessionIds.includes(sessionId)
Includes(ids, sid) == \E i \in 1..Len(ids) : ids[i] = sid

\* sessionIds.filter(id => id !== sessionId)
RECURSIVE Without(_, _)
Without(ids, sid) ==
    IF ids = << >> THEN << >>
    ELSE IF Head(ids) = sid THEN Without(Tail(ids), sid)
    ELSE <<Head(ids)>> \o Without(Tail(ids), sid)

\* `if (userId)`, `if (session?.userId)`: undefined and 0 are both falsy
Truthy(userId) == userId # -1 /\ userId # 0

\* session.userId of the record getSession returns, -1 for no record or no userId
UserIdOf(sid, now) == IF KvGet(kv, sid, now) = Null THEN -1 ELSE userOf[sid]

\* getUserSessions(userId): the ids of the index whose session getSession returns
GetUserSessions(u, now) ==
    SelectSeq(IndexGet(u, now).ids, LAMBDA sid : KvGet(kv, sid, now) # Null)

\* the store's clock: a second passes
IndexTick ==
    /\ clock < MaxIndexClock * MsPerSec
    /\ clock' = clock + MsPerSec
    /\ UNCHANGED <<kv, nextSid, apiVars, bridgeVars, codec, gateVars, idVars, indexVars, sweepVars, ctlVars, calcVars>>

\* createSession(dcId, userId) up to `await this.storeSession(session)`
CreateForUserCall(p, userId) ==
    /\ idx[p].pc = "idle"
    /\ nextSid <= MaxIndexSessions
    /\ idx' = [idx EXCEPT ![p] = [pc |-> "create_put", sid |-> nextSid, userId |-> userId,
                                  ids |-> << >>]]
    /\ nextSid' = nextSid + 1
    /\ UNCHANGED <<clock, kv, apiVars, bridgeVars, codec, gateVars, idVars, userIndex, userOf,
                   deleted, sweepVars, ctlVars, calcVars>>

\* createSession: the put lands; `if (userId)` updateUserSessionIndex up to its get
CreateForUserPut(p) ==
    /\ idx[p].pc = "create_put"
    /\ kv' = StoreSession(kv, NewSession(idx[p].sid, DefaultDc, clock), clock)
    /\ userOf' = [userOf EXCEPT ![idx[p].sid] = idx[p].userId]
    /\ idx' = [idx EXCEPT ![p] = IF Truthy(idx[p].userId) THEN [@ EXCEPT !.pc = "create_index_get"]
                                 ELSE IdleIndexCaller]
    /\ UNCHANGED <<clock, nextSid, apiVars, bridgeVars, codec, gateVars, idVars, userIndex,
                   deleted, sweepVars, ctlVars, calcVars>>

\* updateUserSessionIndex after the get: the id is pushed unless included, up to the put
CreateIndexGet(p) ==
    /\ idx[p].pc = "create_index_get"
    /\ LET sessionIds == IndexGet(idx[p].userId, clock).ids
       IN  idx' = [idx EXCEPT ![p] = IF Includes(sessionIds, idx[p].sid) THEN IdleIndexCaller
                                     ELSE [@ EXCEPT !.pc = "create_index_put",
                                                    !.ids = Append(sessionIds, idx[p].sid)]]
    /\ UNCHANGED <<clock, kv, nextSid, apiVars, bridgeVars, codec, gateVars, idVars, userIndex,
                   userOf, deleted, sweepVars, ctlVars, calcVars>>

\* updateUserSessionIndex: the put of the index lands
CreateIndexPut(p) ==
    /\ idx[p].pc = "create_index_put"
    /\ userIndex' = [userIndex EXCEPT ![idx[p].userId] =
                        [ids |-> idx[p].ids, exp |-> clock + SessionTtlMs]]
    /\ idx' = [idx EXCEPT ![p] = IdleIndexCaller]
    /\ UNCHANGED <<clock, kv, nextSid, apiVars, bridgeVars, codec, gateVars, idVars, userOf,
                   deleted, sweepVars, ctlVars, calcVars>>

\* deleteSession(sessionId) of a session that was created, up to `await this.getSession`
DeleteForUserCall(p, sid) ==
    /\ idx[p].pc = "idle"
    /\ userOf[sid] # -1
    /\ ~deleted[sid]
    /\ \A q \in Callers : ~(idx[q].sid = sid /\ idx[q].pc # "idle")
    /\ idx' = [idx EXCEPT ![p] = [pc |-> "delete_get", sid |-> sid, userId |-> -1, ids |-> << >>]]
    /\ UNCHANGED <<clock, kv, nextSid, apiVars, bridgeVars, codec, gateVars, idVars, userIndex,
                   userOf, deleted, sweepVars, ctlVars, calcVars>>

\* deleteSession after getSession, up to `await this.env.SESSIONS.delete`
DeleteForUserGet(p) ==
    /\ idx[p].pc = "delete_get"
    /\ idx' = [idx EXCEPT ![p].pc = "delete_del", ![p].userId = UserIdOf(idx[p].sid, clock)]
    /\ UNCHANGED <<clock, kv, nextSid, apiVars, bridgeVars, codec, gateVars, idVars, userIndex,
                   userOf, deleted, sweepVars, ctlVars, calcVars>>

\* deleteSession: the record is deleted; `if (session?.userId)`
\* removeFromUserSessionIndex up to its get
DeleteForUserDel(p) ==
    /\ idx[p].pc = "delete_del"
    /\ kv' = KvDelete(kv, idx[p].sid)
    /\ IF Truthy(idx[p].userId)
       THEN /\ idx' = [idx EXCEPT ![p].pc = "delete_index_get"]
            /\ UNCHANGED deleted
       ELSE /\ idx' = [idx EXCEPT ![p] = IdleIndexCaller]
            /\ deleted' = [deleted EXCEPT ![idx[p].sid] = TRUE]
    /\ UNCHANGED <<clock, nextSid, apiVars, bridgeVars, codec, gateVars, idVars, userIndex,
                   userOf, sweepVars, ctlVars, calcVars>>

\* removeFromUserSessionIndex after the get: nothing to do without an index, else the
\* id is filtered out, up to the put of the rest or the delete of the empty index
DeleteIndexGet(p) ==
    /\ idx[p].pc = "delete_index_get"
    /\ IF IndexPresent(idx[p].userId, clock)
       THEN /\ idx' = [idx EXCEPT ![p].pc = "delete_index_put",
                                  ![p].ids = Without(IndexGet(idx[p].userId, clock).ids,
                                                     idx[p].sid)]
            /\ UNCHANGED deleted
       ELSE /\ idx' = [idx EXCEPT ![p] = IdleIndexCaller]
            /\ deleted' = [deleted EXCEPT ![idx[p].sid] = TRUE]
    /\ UNCHANGED <<clock, kv, nextSid, apiVars, bridgeVars, codec, gateVars, idVars, userIndex,
                   userOf, sweepVars, ctlVars, calcVars>>

\* removeFromUserSessionIndex: the rest is put, or the empty index deleted
DeleteIndexPut(p) ==
    /\ idx[p].pc = "delete_index_put"
    /\ userIndex' = [userIndex EXCEPT ![idx[p].userId] =
                        IF Len(idx[p].ids) > 0
                        THEN [ids |-> idx[p].ids, exp |-> clock + SessionTtlMs]
                        ELSE NoIndex]
    /\ deleted' = [deleted EXCEPT ![idx[p].sid] = TRUE]
    /\ idx' = [idx EXCEPT ![p] = IdleIndexCaller]
    /\ UNCHANGED <<clock, kv, nextSid, apiVars, bridgeVars, codec, gateVars, idVars, userOf,
                   sweepVars, ctlVars, calcVars>>

\* ------------------------------------------------------------- the sweep
\* cleanupExpiredSessions over a store that holds session records of several ages.
\* Each awaited store operation is a step, and each may fail: getSession swallows
\* the failure of its get, the list and the delete throw into the sweep's catch.

NoSweep ==
    [pc |-> "idle", now |-> 0, keys |-> << >>, cleanedCount |-> 0, removed |-> {},
     expired |-> {}, kept |-> {}, failed |-> FALSE, result |-> -1]

InitSweepIdle ==
    /\ sweep = NoSweep

\* the records a store of session records can hold at time now: each of the first
\* MaxSweepSessions ids absent, or stored at a whole second up to now
SweepStores(now) ==
    {[s \in SessionIds |-> IF s \in DOMAIN f /\ f[s] >= 0
                            THEN [rec |-> NewSession(s, DefaultDc, f[s] * MsPerSec),
                                  exp |-> f[s] * MsPerSec + SessionTtlMs]
                            ELSE Absent] :
        f \in [1..MaxSweepSessions -> -1..(now \div MsPerSec)]}

\* SESSIONS.list({prefix}): the keys of the records whose TTL has not run out
RECURSIVE ListFrom(_, _, _)
ListFrom(store, now, s) ==
    IF s > MaxSid THEN << >>
    ELSE (IF KvGet(store, s, now) # Null THEN <<s>> ELSE << >>) \o ListFrom(store, now, s + 1)

ListKeys(store, now) == ListFrom(store, now, 1)

\* the records idle for longer than the timeout at time now
ExpiredAt(store, now) ==
    {s \in SessionIds : KvGet(store, s, now) # Null /\ IsExpired(KvGet(store, s, now), now)}

\* the catch of cleanupExpiredSessions: return 0
SweepCaught == [sweep EXCEPT !.pc = "done", !.failed = TRUE, !.result = 0]

\* cleanupExpiredSessions up to the end of `await this.env.SESSIONS.list`
SweepStart(fails) ==
    /\ sweep.pc = "idle"
    /\ sweep' = IF fails
                THEN [SweepCaught EXCEPT !.expired = ExpiredAt(kv, clock)]
                ELSE [sweep EXCEPT !.pc = "scan", !.now = clock, !.keys = ListKeys(kv, clock),
                                   !.expired = ExpiredAt(kv, clock),
                                   !.kept = {s \in SessionIds : KvGet(kv, s, clock) # Null}
                                                \ ExpiredAt(kv, clock)]
    /\ UNCHANGED <<clock, kv, nextSid, apiVars, bridgeVars, codec, gateVars, idVars, indexVars, ctlVars, calcVars>>

\* the loop: getSession of the next key; an expired session goes to deleteSession, up
\* to its own getSession
SweepGet(fails) ==
    /\ sweep.pc = "scan"
    /\ sweep.keys # << >>
    /\ LET session == IF fails THEN Null ELSE GetSession(kv, Head(sweep.keys), clock)
       IN  sweep' = IF session # Null /\ (sweep.now - session.lastActivity) > SessionTimeoutMs
                    THEN [sweep EXCEPT !.pc = "delete_get", !.failed = @ \/ fails]
                    ELSE [sweep EXCEPT !.keys = Tail(@), !.failed = @ \/ fails]
    /\ UNCHANGED <<clock, kv, nextSid, apiVars, bridgeVars, codec, gateVars, idVars, indexVars, ctlVars, calcVars>>

\* deleteSession after its getSession (a record without userId), up to the delete
SweepDeleteGet(fails) ==
    /\ sweep.pc = "delete_get"
    /\ sweep' = [sweep EXCEPT !.pc = "delete_del", !.failed = @ \/ fails]
    /\ UNCHANGED <<clock, kv, nextSid, apiVars, bridgeVars, codec, gateVars, idVars, indexVars, ctlVars, calcVars>>

\* deleteSession: the delete lands and cleanedCount++, or it fails and the sweep's
\* catch returns 0
SweepDeleteDel(fails) ==
    /\ sweep.pc = "delete_del"
    /\ IF fails
       THEN /\ sweep' = SweepCaught
            /\ UNCHANGED kv
       ELSE /\ kv' = KvDelete(kv, Head(sweep.keys))
            /\ sweep' = [sweep EXCEPT !.pc = "scan", !.keys = Tail(@),
                                      !.cleanedCount = @ + 1,
                                      !.removed = @ \cup {Head(sweep.keys)}]
    /\ UNCHANGED <<clock, nextSid, apiVars, bridgeVars, codec, gateVars, idVars, indexVars, ctlVars, calcVars>>

\* the loop is over: return cleanedCount
SweepReturn ==
    /\ sweep.pc = "scan"
    /\ sweep.keys = << >>
    /\ sweep' = [sweep EXCEPT !.pc = "done", !.result = sweep.cleanedCount]
    /\ UNCHANGED <<clock, kv, nextSid, apiVars, bridgeVars, codec, gateVars, idVars, indexVars, ctlVars, calcVars>>

\* ------------------------------------------------- textual control frames
\* The 'message' listener for a frame whose data is a string: JSON.parse, then
\* handleControlMessage, then the awaited performance trackEvent; anything thrown
\* goes to the listener's catch, which awaits an error trackEvent and then sends
\* the error reply.  Each awaited call is a step; the store and the telemetry sink
\* may fail in it.

\* the textual frames a client sends: the three known types (get_session_info with
\* and without a sessionId field), an unknown type, and text that is not JSON
ControlKinds ==
    {"ping", "get_stats", "get_session_info", "get_session_info_no_id", "unknown", "not_json"}

InitControl ==
    /\ ctl = << >>

NewControl(c, kind) ==
    [conn |-> c, kind |-> kind, pc |-> "done", replies |-> << >>,
     storeFailed |-> FALSE, trackFailed |-> FALSE]

\* the try block of trackEvent: METRICS.writeDataPoint, then `await ANALYTICS.put`
TrackEventBody(metricsFails, putFails) ==
    IF metricsFails THEN "thrown"
    ELSE IF putFails THEN "thrown"
    ELSE "completed"

\* faulty variant: trackEvent without its catch
TrackEventUncaught(metricsFails, putFails) ==
    IF TrackEventBody(metricsFails, putFails) = "thrown" THEN "rejected" ELSE "resolved"

\* trackEvent: how its promise settles; the catch logs what the body threw
TrackEvent(metricsFails, putFails) ==
    IF TrackEventBody(metricsFails, putFails) = "thrown" THEN "resolved" ELSE "resolved"

\* the listener from JSON.parse up to the first await of handleControlMessage, or to
\* the trackEvent that follows it
HandleControlMessage(t) ==
    IF t.kind = "not_json" THEN [t EXCEPT !.pc = "err_track"]
    ELSE IF t.kind = "ping" THEN [t EXCEPT !.replies = <<"pong">>, !.pc = "perf_track"]
    ELSE IF t.kind = "get_stats" THEN [t EXCEPT !.pc = "stats_list"]
    ELSE IF t.kind = "get_session_info" THEN [t EXCEPT !.pc = "info_get"]
    ELSE IF t.kind = "get_session_info_no_id" THEN [t EXCEPT !.pc = "perf_track"]
    ELSE [t EXCEPT !.replies = <<"error">>, !.pc = "perf_track"]

\* 'message' listener, textual frame
ControlListener(c, kind) ==
    /\ ws[c] = "open"
    /\ listening[c]
    /\ Len(ctl) < MaxControl
    /\ ctl' = Append(ctl, HandleControlMessage(NewControl(c, kind)))
    /\ UNCHANGED <<clock, kv, nextSid, apiVars, bridgeVars, codec, gateVars, idVars, indexVars,
                   sweepVars, calcVars>>

\* get_stats: getConnectionStats -> getSessionStats answers; its SESSIONS.list is
\* outside any try, the getSession of each key never throws
GetConnectionStatsDone(j, fails) ==
    /\ j \in 1..Len(ctl)
    /\ ctl[j].pc = "stats_list"
    /\ ctl' = IF fails
              THEN [ctl EXCEPT ![j].pc = "err_track", ![j].storeFailed = TRUE]
              ELSE [ctl EXCEPT ![j].pc = "perf_track", ![j].replies = Append(@, "stats")]
    /\ UNCHANGED <<clock, kv, nextSid, apiVars, bridgeVars, codec, gateVars, idVars, indexVars,
                   sweepVars, calcVars>>

\* get_session_info with a sessionId: getSession answers (null when the store
\* failed) and the session_info reply is sent
SessionInfoDone(j, fails) ==
    /\ j \in 1..Len(ctl)
    /\ ctl[j].pc = "info_get"
    /\ ctl' = [ctl EXCEPT ![j].pc = "perf_track", ![j].storeFailed = fails,
                          ![j].replies = Append(@, "session_info")]
    /\ UNCHANGED <<clock, kv, nextSid, apiVars, bridgeVars, codec, gateVars, idVars, indexVars,
                   sweepVars, calcVars>>

\* the performance trackEvent at the end of the try block settles
PerformanceTracked(j, metricsFails, putFails) ==
    /\ j \in 1..Len(ctl)
    /\ ctl[j].pc = "perf_track"
    /\ ctl' = [ctl EXCEPT ![j].trackFailed = @ \/ metricsFails \/ putFails,
                          ![j].pc = IF TrackEvent(metricsFails, putFails) = "resolved"
                                    THEN "done" ELSE "err_track"]
    /\ UNCHANGED <<clock, kv, nextSid, apiVars, bridgeVars, codec, gateVars, idVars, indexVars,
                   sweepVars, calcVars>>

\* the catch block: its trackEvent settles, then webSocket.send of the error JSON
\* (a rejection would leave the listener before the send)
ErrorTracked(j, metricsFails, putFails) ==
    /\ j \in 1..Len(ctl)
    /\ ctl[j].pc = "err_track"
    /\ ctl' = [ctl EXCEPT ![j].trackFailed = @ \/ metricsFails \/ putFails,
                          ![j].pc = "done",
                          ![j].replies = IF TrackEvent(metricsFails, putFails) = "resolved"
                                         THEN Append(@, "error") ELSE @]
    /\ UNCHANGED <<clock, kv, nextSid, apiVars, bridgeVars, codec, gateVars, idVars, indexVars,
                   sweepVars, calcVars>>

\* ------------------------------------------------------ the initial state
InitBridge ==
    /\ ws = [c \in Conns |-> "none"]
    /\ listening = [c \in Conns |-> FALSE]
    /\ sessions = << >>
    /\ currentSession = [c \in Conns |-> Null]
    /\ closing = [c \in Conns |-> NoClose]
    /\ up = << >>
    /\ telegramSockets = [d \in DcIds |-> 0]
    /\ tasks = << >>
    /\ upSent = << >>
    /\ clientRecv = [c \in Conns |-> << >>]
    /\ upHandled = << >>

\* ------------------------------------------- concurrent rate-limit checks
\* RateLimiter.checkRateLimit called for several requests of one address at once.
\* The get and the put of the counter are awaited, so another call may run between
\* them; the calls share the store key rate_limit:<ip> (rateLimit).

RateCallers == 1..MaxRateCallers

NoCheck == [pc |-> "idle", count |-> 0, timestamp |-> 0, allowed |-> FALSE, failed |-> FALSE]

\* checkRateLimit from `await this.env.SESSIONS.get(key)` to the put: a missing
\* counter starts at 0, a passed window resets it, the limit is tested, the counter
\* incremented; catch: return true
CheckRateLimitGet(p, fails) ==
    /\ checks[p].pc = "idle"
    /\ IF fails
       THEN checks' = [checks EXCEPT ![p] = [@ EXCEPT !.pc = "done", !.allowed = AllowOnError,
                                                      !.failed = TRUE]]
       ELSE LET current == IF rateLimit.present THEN rateLimit
                           ELSE [present |-> TRUE, count |-> 0, timestamp |-> clock]
                data == IF clock - current.timestamp >= RateWindow * MsPerSec
                        THEN [current EXCEPT !.count = 0, !.timestamp = clock]
                        ELSE current
            IN  IF data.count >= RATE_LIMIT_RPM
                THEN checks' = [checks EXCEPT ![p] = [@ EXCEPT !.pc = "done", !.allowed = FALSE]]
                ELSE checks' = [checks EXCEPT ![p] = [@ EXCEPT !.pc = "rl_put",
                                                               !.count = data.count + 1,
                                                               !.timestamp = data.timestamp]]
    /\ UNCHANGED <<clock, kv, nextSid, apiVars, bridgeVars, codec, gateVars, idVars, indexVars,
                   sweepVars, ctlVars, cipher, wire>>

\* checkRateLimit: `await this.env.SESSIONS.put(key, data)` lands or fails; return true
CheckRateLimitPut(p, fails) ==
    /\ checks[p].pc = "rl_put"
    /\ IF fails
       THEN /\ checks' = [checks EXCEPT ![p] = [@ EXCEPT !.pc = "done", !.allowed = AllowOnError,
                                                         !.failed = TRUE]]
            /\ UNCHANGED rateLimit
       ELSE /\ rateLimit' = [present |-> TRUE, count |-> checks[p].count,
                             timestamp |-> checks[p].timestamp]
            /\ checks' = [checks EXCEPT ![p] = [@ EXCEPT !.pc = "done", !.allowed = TRUE]]
    /\ UNCHANGED <<clock, kv, nextSid, apiVars, bridgeVars, codec, connInfo, req, idVars,
                   indexVars, sweepVars, ctlVars, cipher, wire>>

NextRate ==
    \E p \in RateCallers, fails \in BOOLEAN :
        \/ CheckRateLimitGet(p, fails)
        \/ CheckRateLimitPut(p, fails)

\* ------------------------------------------------------- the cipher step
\* aesIgeEncrypt and aesIgeDecrypt hand the data to CryptoJS.AES with
\* mode: CryptoJS.mode.CBC and padding: NoPadding.  A block is a BlockBits-bit
\* value, the block cipher a keyed permutation of the block values, XOR the
\* bitwise one; the iv is two blocks long, as aesIv is two AES blocks long.

BlockValues == 0..(2 ^ BlockBits - 1)
CipherKeys == 0..MaxCipherKey
CipherInputs ==
    UNION {[1..n -> BlockValues] : n \in 1..MaxBlocks}

RECURSIVE Xor(_, _)
Xor(a, b) ==
    IF a = 0 /\ b = 0 THEN 0
    ELSE ((a + b) % 2) + 2 * Xor(a \div 2, b \div 2)

\* the block cipher under a key: a permutation of the block values that is not
\* linear in XOR
AesBlock(key, x) == (3 * x + key + 1) % (2 ^ BlockBits)

\* the inverse permutation
AesBlockInv(key, y) == CHOOSE x \in BlockValues : AesBlock(key, x) = y

\* CryptoJS.mode.CBC, Encryptor: each block is XORed with the previous ciphertext
\* block (the first with the iv), then enciphered
RECURSIVE CbcEncrypt(_, _, _)
CbcEncrypt(data, key, prev) ==
    IF data = << >> THEN << >>
    ELSE LET c == AesBlock(key, Xor(Head(data), prev))
         IN  <<c>> \o CbcEncrypt(Tail(data), key, c)

\* CryptoJS.mode.CBC, Decryptor: each block is deciphered, then XORed with the
\* previous ciphertext block (the first with the iv)
RECURSIVE CbcDecrypt(_, _, _)
CbcDecrypt(data, key, prev) ==
    IF data = << >> THEN << >>
    ELSE <<Xor(AesBlockInv(key, Head(data)), prev)>> \o CbcDecrypt(Tail(data), key, Head(data))

\* aesIgeEncrypt(data, key, iv), block by block: CBC takes the first block of the
\* iv it is given
AesIgeEncryptBlocks(data, key, iv) == CbcEncrypt(data, key, iv[1])

\* aesIgeDecrypt(data, key, iv), block by block
AesIgeDecryptBlocks(data, key, iv) == CbcDecrypt(data, key, iv[1])

NoCipher == [pc |-> "idle", key |-> 0, iv |-> <<0, 0>>, data |-> << >>, out |-> << >>,
             back |-> << >>]

AesIgeEncryptCall(data, key, iv) ==
    /\ cipher.pc = "idle"
    /\ cipher' = [cipher EXCEPT !.pc = "encrypted", !.key = key, !.iv = iv, !.data = data,
                                !.out = AesIgeEncryptBlocks(data, key, iv)]
    /\ UNCHANGED <<clock, kv, nextSid, apiVars, bridgeVars, codec, gateVars, idVars, indexVars,
                   sweepVars, ctlVars, checks, wire>>

AesIgeDecryptCall ==
    /\ cipher.pc = "encrypted"
    /\ cipher' = [cipher EXCEPT !.pc = "decrypted",
                                !.back = AesIgeDecryptBlocks(cipher.out, cipher.key, cipher.iv)]
    /\ UNCHANGED <<clock, kv, nextSid, apiVars, bridgeVars, codec, gateVars, idVars, indexVars,
                   sweepVars, ctlVars, checks, wire>>

NextCipher ==
    \/ \E data \in CipherInputs, key \in CipherKeys, iv \in BlockValues \X BlockValues :
           AesIgeEncryptCall(data, key, iv)
    \/ AesIgeDecryptCall

\* ------------------------------------------- the 32-bit fields on the wire
\* createInnerData writes seqNo and message.length as four bytes each, least
\* significant first; parseInnerData reads them back with | and <<.  A 32-bit
\* value is kept as its two 16-bit halves.

HalfWords == {0, 1, 255, 256, 32767, 32768, 65535}
WireFields == {"seqNo", "length"}

\* v & 0xff, (v >>> 8) & 0xff, (v >>> 16) & 0xff, (v >>> 24) & 0xff
UInt32Bytes(hi, lo) == LEBytes(lo, 2) \o LEBytes(hi, 2)

NoWire == [pc |-> "idle", field |-> "seqNo", hi |-> 0, lo |-> 0, bytes |-> << >>, parsed |-> 0]

CreateInnerDataField(field, hi, lo) ==
    /\ wire.pc = "idle"
    /\ wire' = [wire EXCEPT !.pc = "written", !.field = field, !.hi = hi, !.lo = lo,
                            !.bytes = UInt32Bytes(hi, lo)]
    /\ UNCHANGED <<clock, kv, nextSid, apiVars, bridgeVars, codec, gateVars, idVars, indexVars,
                   sweepVars, ctlVars, checks, cipher>>

ParseInnerDataField ==
    /\ wire.pc = "written"
    /\ wire' = [wire EXCEPT !.pc = "parsed", !.parsed = Int32LE(wire.bytes)]
    /\ UNCHANGED <<clock, kv, nextSid, apiVars, bridgeVars, codec, gateVars, idVars, indexVars,
                   sweepVars, ctlVars, checks, cipher>>

NextWire ==
    \/ \E field \in WireFields, hi \in HalfWords, lo \in HalfWords :
           CreateInnerDataField(field, hi, lo)
    \/ ParseInnerDataField

InitCalc ==
    /\ checks = [p \in RateCallers |-> NoCheck]
    /\ cipher = NoCipher
    /\ wire = NoWire

InitCore ==
    /\ clock = 0
    /\ kv = [s \in SessionIds |-> Absent]
    /\ nextSid = 1
    /\ api = [p \in Callers |-> IdleCaller]
    /\ ret = NoResult
    /\ born = [s \in SessionIds |-> -1]
    /\ delIssued = [s \in SessionIds |-> FALSE]
    /\ maxSeqNo = [s \in SessionIds |-> 0]
    /\ saidInvalid = [s \in SessionIds |-> "no"]
    /\ wasValid = [s \in SessionIds |-> FALSE]
    /\ InitBridge

Init ==
    /\ InitCore
    /\ InitLib
    /\ InitGate
    /\ InitIds
    /\ InitIndex
    /\ InitSweepIdle
    /\ InitControl
    /\ InitCalc

\* the wall clock advances by one second
Tick ==
    /\ clock < MaxClock * MsPerSec
    /\ clock' = clock + MsPerSec
    /\ UNCHANGED <<libVars, kv, nextSid, api, ret, born, delIssued, maxSeqNo, saidInvalid, wasValid, bridgeVars>>

\* createSession up to `await this.storeSession(session)`
CreateSessionCall(p) ==
    /\ api[p].pc = "idle"
    /\ nextSid <= MaxStoreSessions
    /\ api' = [api EXCEPT ![p] = [pc |-> "create_put", op |-> "create", sid |-> nextSid,
                                  arg |-> NewSession(nextSid, DefaultDc, clock), held |-> @.held]]
    /\ nextSid' = nextSid + 1
    /\ UNCHANGED <<libVars, clock, kv, ret, born, delIssued, maxSeqNo, saidInvalid, wasValid, bridgeVars>>

\* the dcId fields a session API request carries: none (0), 1, 5, 6
RequestedDcIds == {0, DefaultDc, NumDc, NumDc + 1}

\* handleSessionAPI 'create': `dcId || 1`
DcOrDefault(dcId) == IF dcId = 0 THEN DefaultDc ELSE dcId

\* handleSessionAPI 'create' with the request's dcId: createSession(dcId || 1) up to
\* `await this.storeSession(session)`
HandleSessionApiCreate(p, dcId) ==
    /\ api[p].pc = "idle"
    /\ Cardinality({s \in SessionIds : born[s] >= 0})
          + Cardinality({q \in Callers : api[q].pc = "create_put"}) < MaxStoreSessions
    /\ api' = [api EXCEPT ![p] = [pc |-> "create_put", op |-> "create", sid |-> nextSid,
                                  arg |-> NewSession(nextSid, DcOrDefault(dcId), clock),
                                  held |-> @.held]]
    /\ nextSid' = nextSid + 1
    /\ UNCHANGED <<libVars, clock, kv, ret, born, delIssued, maxSeqNo, saidInvalid, wasValid, bridgeVars>>

\* createSession: the put lands and the session is returned (no userId: no index write)
CreateSessionDone(p) ==
    /\ api[p].pc = "create_put"
    /\ kv' = StoreSession(kv, api[p].arg, clock)
    /\ NotePut(api[p].arg)
    /\ born' = [born EXCEPT ![api[p].sid] = api[p].arg.lastActivity]
    /\ ret' = Result("create", api[p].sid, "created", api[p].arg, "no")
    /\ api' = [api EXCEPT ![p] = [IdleCaller EXCEPT !.held = api[p].arg]]
    /\ UNCHANGED <<libVars, clock, nextSid, delIssued, wasValid, bridgeVars>>

\* getSession(sessionId) by an API caller, who keeps the copy it is given
GetSessionCall(p, sid) ==
    /\ api[p].pc = "idle"
    /\ born[sid] >= 0
    /\ LET s == GetSession(kv, sid, clock) IN
         /\ ret' = Result("get", sid, IF s = Null THEN "absent" ELSE "present",
                         s, saidInvalid[sid])
         /\ api' = [api EXCEPT ![p].held = s]
    /\ UNCHANGED <<libVars, clock, kv, nextSid, born, delIssued, maxSeqNo, saidInvalid, wasValid, bridgeVars>>

\* updateSession(session) up to `await this.storeSession(session)`: the caller passes
\* its copy, whose seqNo it may have advanced for an outbound message
UpdateSessionCall(p) ==
    /\ api[p].pc = "idle"
    /\ api[p].held # Null
    /\ \E n \in {api[p].held.seqNo, api[p].held.seqNo + 1} :
         /\ n <= MaxSeqNo
         /\ LET session == [api[p].held EXCEPT !.seqNo = n, !.lastActivity = clock] IN
              api' = [api EXCEPT ![p] = [pc |-> "update_put", op |-> "update",
                                         sid |-> session.sessionId, arg |-> session,
                                         held |-> session]]
    /\ UNCHANGED <<libVars, clock, kv, nextSid, ret, born, delIssued, maxSeqNo, saidInvalid, wasValid, bridgeVars>>

\* updateSession: the put lands
UpdateSessionDone(p) ==
    /\ api[p].pc = "update_put"
    /\ kv' = StoreSession(kv, api[p].arg, clock)
    /\ NotePut(api[p].arg)
    /\ ret' = Result("update", api[p].sid, "stored", api[p].arg, "no")
    /\ api' = [api EXCEPT ![p] = [IdleCaller EXCEPT !.held = api[p].held]]
    /\ UNCHANGED <<libVars, clock, nextSid, born, delIssued, wasValid, bridgeVars>>

\* validateSession's outcome once getSession has answered: "false", "true", or
\* "expired" (deleteSession is awaited before false is returned)
ValidateOutcome(session, now) ==
    IF session = Null THEN "false"
    ELSE IF IsExpired(session, now) THEN "expired"
    ELSE "true"

\* validateSession(sessionId): getSession answers and the expiry check runs
ValidateSessionCall(p, sid) ==
    /\ api[p].pc = "idle"
    /\ born[sid] >= 0
    /\ LET s == GetSession(kv, sid, clock)
           o == ValidateOutcome(s, clock) IN
         IF o = "expired"
         THEN /\ api' = [api EXCEPT ![p] = [pc |-> "del_get", op |-> "validate", sid |-> sid,
                                            arg |-> s, held |-> @.held]]
              /\ UNCHANGED <<ret, saidInvalid, wasValid>>
         ELSE /\ ret' = Result("validate", sid, o, s, "no")
              /\ saidInvalid' = [saidInvalid EXCEPT ![sid] = IF o = "false" THEN "absent" ELSE @]
              /\ wasValid' = [wasValid EXCEPT ![sid] = @ \/ o = "true"]
              /\ UNCHANGED api
    /\ UNCHANGED <<libVars, clock, kv, nextSid, born, delIssued, maxSeqNo, bridgeVars>>

\* deleteSession(sessionId), called through the session API: getSession answers
DeleteSessionCall(p, sid) ==
    /\ api[p].pc = "idle"
    /\ born[sid] >= 0
    /\ api' = [api EXCEPT ![p] = [pc |-> "del_kv", op |-> "delete", sid |-> sid,
                                  arg |-> GetSession(kv, sid, clock), held |-> @.held]]
    /\ UNCHANGED <<libVars, clock, kv, nextSid, ret, born, delIssued, maxSeqNo, saidInvalid, wasValid, bridgeVars>>

\* deleteSession inside validateSession: its own getSession answers
DeleteSessionGet(p) ==
    /\ api[p].pc = "del_get"
    /\ api' = [api EXCEPT ![p].pc = "del_kv"]
    /\ UNCHANGED <<libVars, clock, kv, nextSid, ret, born, delIssued, maxSeqNo, saidInvalid, wasValid, bridgeVars>>

\* what validateSession does after the expiry check found the session expired
ExpiredCleanup(store, sid) == KvDelete(store, sid)

\* deleteSession: env.SESSIONS.delete lands (no userId: no index write), and the
\* operation that asked for it returns
DeleteSessionDone(p) ==
    /\ api[p].pc = "del_kv"
    /\ kv' = IF api[p].op = "validate" THEN ExpiredCleanup(kv, api[p].sid)
             ELSE KvDelete(kv, api[p].sid)
    /\ delIssued' = [delIssued EXCEPT ![api[p].sid] = @ \/ api[p].op = "delete"]
    /\ IF api[p].op = "validate"
       THEN /\ ret' = Result("validate", api[p].sid, "false", api[p].arg, "no")
            /\ saidInvalid' = [saidInvalid EXCEPT ![api[p].sid] = "expired"]
       ELSE /\ ret' = Result("delete", api[p].sid, "deleted", api[p].arg, "no")
            /\ UNCHANGED saidInvalid
    /\ api' = [api EXCEPT ![p] = [IdleCaller EXCEPT !.held = api[p].held]]
    /\ UNCHANGED <<libVars, clock, nextSid, born, maxSeqNo, wasValid, bridgeVars>>

\* getSession when the store's get may throw: the catch logs and returns null
GetSessionCaught(store, sid, now, fails) ==
    IF fails THEN Null ELSE GetSession(store, sid, now)

\* getSession(sessionId) while the store may fail; the result's op says whether it did
GetSessionRead(p, sid, fails) ==
    /\ api[p].pc = "idle"
    /\ LET s == GetSessionCaught(kv, sid, clock, fails) IN
         /\ ret' = Result(IF fails THEN "get_failed" ELSE "get", sid,
                         IF s = Null THEN "absent" ELSE "present", s, saidInvalid[sid])
         /\ api' = [api EXCEPT ![p].held = s]
    /\ UNCHANGED <<libVars, clock, kv, nextSid, born, delIssued, maxSeqNo, saidInvalid, wasValid, bridgeVars>>

\* validateSession(sessionId) while the store may fail in its getSession
ValidateSessionRead(p, sid, fails) ==
    /\ api[p].pc = "idle"
    /\ LET s == GetSessionCaught(kv, sid, clock, fails)
           o == ValidateOutcome(s, clock) IN
         IF o = "expired"
         THEN /\ api' = [api EXCEPT ![p] = [pc |-> "del_get", op |-> "validate", sid |-> sid,
                                            arg |-> s, held |-> @.held]]
              /\ UNCHANGED <<ret, saidInvalid, wasValid>>
         ELSE /\ ret' = Result(IF fails THEN "validate_failed" ELSE "validate", sid, o, s, "no")
              /\ saidInvalid' = [saidInvalid EXCEPT ![sid] = IF o = "false" THEN "absent" ELSE @]
              /\ wasValid' = [wasValid EXCEPT ![sid] = @ \/ o = "true"]
              /\ UNCHANGED api
    /\ UNCHANGED <<libVars, clock, kv, nextSid, born, delIssued, maxSeqNo, bridgeVars>>

NextStore ==
    \/ Tick
    \/ \E p \in Callers : CreateSessionCall(p)
    \/ \E p \in Callers : CreateSessionDone(p)
    \/ \E p \in Callers, sid \in SessionIds : GetSessionCall(p, sid)
    \/ \E p \in Callers : UpdateSessionCall(p)
    \/ \E p \in Callers : UpdateSessionDone(p)
    \/ \E p \in Callers, sid \in SessionIds : ValidateSessionCall(p, sid)
    \/ \E p \in Callers, sid \in SessionIds : DeleteSessionCall(p, sid)
    \/ \E p \in Callers : DeleteSessionGet(p)
    \/ \E p \in Callers : DeleteSessionDone(p)

SpecStore == Init /\ [][NextStore]_vars

\* ------------------------------------------------------------- the bridge
\* faulty variant: the alignment check left out
ValidateLengthOnly(len) ==
    IF len < MinFrameLen THEN FALSE ELSE TRUE

\* Utils.validateMTProtoMessage
ValidateMTProtoMessage(len) ==
    IF len < MinFrameLen THEN FALSE
    ELSE IF len % FrameAlign # 0 THEN FALSE
    ELSE TRUE

NewTask(c, len) ==
    [conn |-> c, len |-> len, pc |-> "done", session |-> Null, err |-> "none",
     acked |-> "none", made |-> 0]

\* the task list with task i set (i is an existing task, or the next one)
PutTask(i, t) == IF i = Len(tasks) + 1 THEN Append(tasks, t) ELSE [tasks EXCEPT ![i] = t]

\* getTelegramConnection: the registered socket is reused only while it is open
ReuseUpstream(dc) ==
    /\ telegramSockets[dc] # 0
    /\ up[telegramSockets[dc]].state = "open"

\* getTelegramConnection: the socket it returns (a new one is `new WebSocket(dcEndpoint)`)
GetTelegramConnection(dc) ==
    IF ReuseUpstream(dc) THEN telegramSockets[dc] ELSE Len(up) + 1

\* getTelegramConnection: the sockets that exist once it has returned; a new socket is
\* CONNECTING and is registered only by its 'open' listener
UpAfterGet(dc) ==
    IF ReuseUpstream(dc) THEN up ELSE Append(up, [state |-> "connecting", dc |-> dc])

\* faulty variant: the frame is handed to the socket before its readyState is checked
HandleMTProtoMessageSendFirst(i, t, session, aliased) ==
    LET sock == GetTelegramConnection(session.dcId)
        upNew == UpAfterGet(session.dcId)
        isOpen == upNew[sock].state = "open"
        touched == [session EXCEPT !.lastActivity = clock]
    IN  /\ up' = upNew
        /\ upSent' = Append(upSent, <<sock, i>>)
        /\ IF isOpen
           THEN /\ tasks' = PutTask(i, [t EXCEPT !.pc = "upd_put", !.session = touched])
                /\ currentSession' = IF aliased
                                     THEN [currentSession EXCEPT ![t.conn] = touched]
                                     ELSE currentSession
           ELSE /\ tasks' = PutTask(i, [t EXCEPT !.pc = "err_track", !.err = "noconn",
                                                 !.session = session])
                /\ UNCHANGED currentSession

\* handleMTProtoMessage from the session on: get the upstream, throw if it is not
\* open, else send the frame and call updateSession (up to its awaited put).
\* aliased: `session` is the connection's currentSession object itself
HandleMTProtoMessage(i, t, session, aliased) ==
    LET sock == GetTelegramConnection(session.dcId)
        upNew == UpAfterGet(session.dcId)
        isOpen == upNew[sock].state = "open"
        touched == [session EXCEPT !.lastActivity = clock]
    IN  /\ up' = upNew
        /\ IF isOpen
           THEN /\ upSent' = Append(upSent, <<sock, i>>)
                /\ tasks' = PutTask(i, [t EXCEPT !.pc = "upd_put", !.session = touched])
                /\ currentSession' = IF aliased
                                     THEN [currentSession EXCEPT ![t.conn] = touched]
                                     ELSE currentSession
           ELSE /\ tasks' = PutTask(i, [t EXCEPT !.pc = "err_track", !.err = "noconn",
                                                 !.session = session])
                /\ UNCHANGED <<upSent, currentSession>>

\* fetch: the upgrade request is answered, the server socket accepted, and
\* handleWebSocketConnection runs up to its first `await this.analytics.trackEvent`
Fetch(c) ==
    /\ ws[c] = "none"
    /\ \A d \in Conns : d < c => ws[d] # "none"
    /\ ws' = [ws EXCEPT ![c] = "open"]
    /\ UNCHANGED <<libVars, clock, kv, nextSid, apiVars, listening, sessions, currentSession, closing,
                   up, telegramSockets, tasks, upSent, clientRecv, upHandled>>

\* handleWebSocketConnection after the await: the listeners are added and the
\* connection is stored in the table
HandleWebSocketConnection(c) ==
    /\ ws[c] # "none"
    /\ ~listening[c]
    /\ listening' = [listening EXCEPT ![c] = TRUE]
    /\ sessions' = Append(sessions, c)
    /\ UNCHANGED <<libVars, clock, kv, nextSid, apiVars, ws, currentSession, closing,
                   up, telegramSockets, tasks, upSent, clientRecv, upHandled>>

\* 'message' listener, binary frame: validation, then handleMTProtoMessage with the
\* closure's currentSession, up to the first awaited I/O
MessageListener(c, len) ==
    /\ ws[c] = "open"
    /\ listening[c]
    /\ Len(tasks) < MaxFrames
    /\ LET i == Len(tasks) + 1
           t == NewTask(c, len)
       IN  IF ~ValidateMTProtoMessage(len)
           THEN /\ tasks' = Append(tasks, [t EXCEPT !.pc = "err_track", !.err = "invalid"])
                /\ UNCHANGED <<nextSid, up, upSent, currentSession>>
           ELSE IF currentSession[c] = Null
           THEN \* initializeSession -> createSession(1) -> await storeSession
                /\ tasks' = Append(tasks, [t EXCEPT !.pc = "init_put", !.made = 1,
                                             !.session = NewSession(nextSid, DefaultDc, clock)])
                /\ nextSid' = nextSid + 1
                /\ UNCHANGED <<up, upSent, currentSession>>
           ELSE /\ HandleMTProtoMessage(i, t, currentSession[c], TRUE)
                /\ UNCHANGED nextSid
    /\ UNCHANGED <<libVars, clock, kv, apiVars, ws, listening, sessions, closing,
                   telegramSockets, clientRecv, upHandled>>

\* initializeSession: the put of the new session lands, handleMTProtoMessage goes on
InitializeSessionDone(i) ==
    /\ i \in 1..Len(tasks)
    /\ tasks[i].pc = "init_put"
    /\ kv' = StoreSession(kv, tasks[i].session, clock)
    /\ HandleMTProtoMessage(i, tasks[i], tasks[i].session, FALSE)
    /\ UNCHANGED <<libVars, clock, nextSid, apiVars, ws, listening, sessions, closing,
                   telegramSockets, clientRecv, upHandled>>

\* handleMTProtoMessage: the put of updateSession lands; trackEvent is awaited
UpdateActivityDone(i) ==
    /\ i \in 1..Len(tasks)
    /\ tasks[i].pc = "upd_put"
    /\ kv' = StoreSession(kv, tasks[i].session, clock)
    /\ tasks' = [tasks EXCEPT ![i].pc = "msg_track"]
    /\ UNCHANGED <<libVars, clock, nextSid, apiVars, ws, listening, sessions, currentSession, closing,
                   up, telegramSockets, upSent, clientRecv, upHandled>>

\* back in the listener: `if (!currentSession) currentSession = await createSession(1)`
AfterHandleMTProtoMessage(i) ==
    /\ i \in 1..Len(tasks)
    /\ tasks[i].pc = "msg_track"
    /\ IF currentSession[tasks[i].conn] = Null
       THEN /\ tasks' = [tasks EXCEPT ![i].pc = "bind_put", ![i].made = @ + 1,
                                      ![i].session = NewSession(nextSid, DefaultDc, clock)]
            /\ nextSid' = nextSid + 1
       ELSE /\ tasks' = [tasks EXCEPT ![i].pc = "done"]
            /\ UNCHANGED nextSid
    /\ UNCHANGED <<libVars, clock, kv, apiVars, ws, listening, sessions, currentSession, closing,
                   up, telegramSockets, upSent, clientRecv, upHandled>>

\* the listener's createSession(1) returns: the put lands, currentSession is assigned
BindSessionDone(i) ==
    /\ i \in 1..Len(tasks)
    /\ tasks[i].pc = "bind_put"
    /\ kv' = StoreSession(kv, tasks[i].session, clock)
    /\ currentSession' = [currentSession EXCEPT ![tasks[i].conn] = tasks[i].session]
    /\ tasks' = [tasks EXCEPT ![i].pc = "done"]
    /\ UNCHANGED <<libVars, clock, nextSid, apiVars, ws, listening, sessions, closing,
                   up, telegramSockets, upSent, clientRecv, upHandled>>

\* the listener's catch block, after its awaited trackEvent: webSocket.send of the
\* error JSON (send on a socket the client closed meanwhile delivers nothing)
ErrorReply(i) ==
    /\ i \in 1..Len(tasks)
    /\ tasks[i].pc = "err_track"
    /\ LET c == tasks[i].conn IN
         IF ws[c] = "open"
         THEN /\ clientRecv' = [clientRecv EXCEPT ![c] =
                      Append(@, [kind |-> "error", of |-> i, msg |-> tasks[i].err])]
              /\ tasks' = [tasks EXCEPT ![i].pc = "done", ![i].acked = "sent"]
         ELSE /\ tasks' = [tasks EXCEPT ![i].pc = "done", ![i].acked = "lost"]
              /\ UNCHANGED clientRecv
    /\ UNCHANGED <<libVars, clock, kv, nextSid, apiVars, ws, listening, sessions, currentSession,
                   closing, up, telegramSockets, upSent, upHandled>>

\* faulty variant: the whole table cleared instead of one entry deleted
RemoveConnClear(seq, c) == << >>

\* this.sessions.delete(connectionId)
RemoveConn(seq, c) == SelectSeq(seq, LAMBDA d : d # c)

\* the client socket closes. With the listeners registered, the 'close' listener runs
\* up to `await this.sessionManager.updateSession(currentSession)`
CloseListener(c) ==
    /\ ws[c] = "open"
    /\ ws' = [ws EXCEPT ![c] = "closed"]
    /\ IF listening[c]
       THEN /\ sessions' = RemoveConn(sessions, c)
            /\ IF currentSession[c] # Null
               THEN LET touched == [currentSession[c] EXCEPT !.lastActivity = clock] IN
                      /\ currentSession' = [currentSession EXCEPT ![c] = touched]
                      /\ closing' = [closing EXCEPT ![c] = [pc |-> "put", rec |-> touched]]
               ELSE /\ closing' = [closing EXCEPT ![c] = [pc |-> "done", rec |-> Null]]
                    /\ UNCHANGED currentSession
       ELSE UNCHANGED <<sessions, currentSession, closing>>
    /\ UNCHANGED <<libVars, clock, kv, nextSid, apiVars, listening,
                   up, telegramSockets, tasks, upSent, clientRecv, upHandled>>

\* faulty variant: the close listener deletes the session instead of storing it
CloseDeleteSession(c) ==
    /\ closing[c].pc = "put"
    /\ kv' = KvDelete(kv, closing[c].rec.sessionId)
    /\ closing' = [closing EXCEPT ![c].pc = "done"]
    /\ UNCHANGED <<libVars, clock, nextSid, apiVars, ws, listening, sessions, currentSession,
                   up, telegramSockets, tasks, upSent, clientRecv, upHandled>>

\* the 'close' listener's updateSession put lands
CloseUpdateDone(c) ==
    /\ closing[c].pc = "put"
    /\ kv' = StoreSession(kv, closing[c].rec, clock)
    /\ closing' = [closing EXCEPT ![c].pc = "done"]
    /\ UNCHANGED <<libVars, clock, nextSid, apiVars, ws, listening, sessions, currentSession,
                   up, telegramSockets, tasks, upSent, clientRecv, upHandled>>

\* an upstream socket's 'open' listener
UpstreamOpen(k) ==
    /\ k \in 1..Len(up)
    /\ up[k].state = "connecting"
    /\ up' = [up EXCEPT ![k].state = "open"]
    /\ telegramSockets' = [telegramSockets EXCEPT ![up[k].dc] = k]
    /\ UNCHANGED <<libVars, clock, kv, nextSid, apiVars, ws, listening, sessions, currentSession,
                   closing, tasks, upSent, clientRecv, upHandled>>

\* an upstream socket's 'close' listener: telegramSockets.delete(dcId)
UpstreamClose(k) ==
    /\ k \in 1..Len(up)
    /\ up[k].state = "open"
    /\ up' = [up EXCEPT ![k].state = "closed"]
    /\ telegramSockets' = [telegramSockets EXCEPT ![up[k].dc] = 0]
    /\ UNCHANGED <<libVars, clock, kv, nextSid, apiVars, ws, listening, sessions, currentSession,
                   closing, tasks, upSent, clientRecv, upHandled>>

\* an upstream socket fails to connect: its 'error' listener: telegramSockets.delete(dcId)
UpstreamError(k) ==
    /\ k \in 1..Len(up)
    /\ up[k].state = "connecting"
    /\ up' = [up EXCEPT ![k].state = "closed"]
    /\ telegramSockets' = [telegramSockets EXCEPT ![up[k].dc] = 0]
    /\ UNCHANGED <<libVars, clock, kv, nextSid, apiVars, ws, listening, sessions, currentSession,
                   closing, tasks, upSent, clientRecv, upHandled>>

\* faulty variant: the sessions bound to the connections of the table
GetSessionsForDCBound ==
    LET bound == SelectSeq(sessions, LAMBDA c : currentSession[c] # Null)
    IN  [j \in 1..Len(bound) |-> currentSession[bound[j]]]

\* getSessionsForDC: `return []`
GetSessionsForDC == << >>

\* findClientSocket: the first open socket of the connection table, 0 if none
FindClientSocket ==
    LET open == SelectSeq(sessions, LAMBDA c : ws[c] = "open")
    IN  IF open = << >> THEN 0 ELSE Head(open)

\* the connection whose bound session is `sid` and whose socket is open, 0 if none
BoundOpenConn(sid) ==
    LET cs == {c \in Conns : ws[c] = "open" /\ currentSession[c].sessionId = sid}
    IN  IF cs = {} THEN 0 ELSE CHOOSE c \in cs : TRUE

\* forwardTelegramMessage: one send per session of getSessionsForDC, each to the
\* socket findClientSocket returns
ForwardTelegramMessage(m) ==
    LET c == FindClientSocket
        copies == [j \in 1..Len(GetSessionsForDC) |-> [kind |-> "data", of |-> m, msg |-> "payload"]]
    IN  IF c # 0 THEN [clientRecv EXCEPT ![c] = @ \o copies] ELSE clientRecv

\* an upstream socket's 'message' listener; the datacenter means the message for
\* session `target`
UpstreamMessage(k, target) ==
    /\ k \in 1..Len(up)
    /\ up[k].state = "open"
    /\ Len(upHandled) < MaxUpMsg
    /\ \E c \in Conns : /\ currentSession[c].sessionId = target
                        /\ currentSession[c].dcId = up[k].dc
    /\ clientRecv' = ForwardTelegramMessage(Len(upHandled) + 1)
    /\ upHandled' = Append(upHandled, [target |-> target, from |-> k,
                                       addressee |-> BoundOpenConn(target)])
    /\ UNCHANGED <<libVars, clock, kv, nextSid, apiVars, ws, listening, sessions, currentSession,
                   closing, up, telegramSockets, tasks, upSent>>

\* the wall clock advances by one second
BridgeTick ==
    /\ clock < MaxBridgeClock * MsPerSec
    /\ clock' = clock + MsPerSec
    /\ UNCHANGED <<libVars, kv, nextSid, apiVars, bridgeVars>>

\* everything the bridge does for the connections it has accepted
Serve ==
    \/ \E c \in Conns : HandleWebSocketConnection(c)
    \/ \E c \in Conns, len \in FrameLens : MessageListener(c, len)
    \/ \E i \in 1..MaxFrames : InitializeSessionDone(i)
    \/ \E i \in 1..MaxFrames : UpdateActivityDone(i)
    \/ \E i \in 1..MaxFrames : AfterHandleMTProtoMessage(i)
    \/ \E i \in 1..MaxFrames : BindSessionDone(i)
    \/ \E i \in 1..MaxFrames : ErrorReply(i)
    \/ \E c \in Conns : CloseListener(c)
    \/ \E c \in Conns : CloseUpdateDone(c)
    \/ \E k \in 1..MaxFrames : UpstreamOpen(k)
    \/ \E k \in 1..MaxFrames : UpstreamClose(k)
    \/ \E k \in 1..MaxFrames : UpstreamError(k)
    \/ \E k \in 1..MaxFrames, target \in SessionIds : UpstreamMessage(k, target)

\* the bridge with up to MaxConn client connections, within one clock second
Next ==
    \/ \E c \in Conns : Fetch(c)
    \/ Serve

\* the bridge with one client connection, the wall clock advancing
NextTimed ==
    \/ BridgeTick
    \/ Fetch(1)
    \/ Serve

\* the session API's 'delete' for the session a connection is bound to:
\* deleteSession(sessionId) up to its store delete
DeleteBoundSessionCall(p, c) ==
    /\ api[p].pc = "idle"
    /\ currentSession[c] # Null
    /\ ~delIssued[currentSession[c].sessionId]
    /\ api' = [api EXCEPT ![p] = [pc |-> "del_kv", op |-> "delete",
                                  sid |-> currentSession[c].sessionId,
                                  arg |-> GetSession(kv, currentSession[c].sessionId, clock),
                                  held |-> @.held]]
    /\ UNCHANGED <<libVars, clock, kv, nextSid, ret, born, delIssued, maxSeqNo, saidInvalid,
                   wasValid, bridgeVars>>

\* the bridge with one client connection, and a session API caller that deletes the
\* session the connection is bound to
NextShared ==
    \/ Fetch(1)
    \/ Serve
    \/ DeleteBoundSessionCall(1, 1)
    \/ DeleteSessionDone(1)

\* one client connection sending textual control frames
NextControl ==
    \/ Fetch(1)
    \/ HandleWebSocketConnection(1)
    \/ \E kind \in ControlKinds : ControlListener(1, kind)
    \/ \E j \in 1..MaxControl, fails \in BOOLEAN : GetConnectionStatsDone(j, fails)
    \/ \E j \in 1..MaxControl, fails \in BOOLEAN : SessionInfoDone(j, fails)
    \/ \E j \in 1..MaxControl, metricsFails, putFails \in BOOLEAN :
          PerformanceTracked(j, metricsFails, putFails)
    \/ \E j \in 1..MaxControl, metricsFails, putFails \in BOOLEAN :
          ErrorTracked(j, metricsFails, putFails)

\* session creation: a session API caller creating sessions with the dcId of its
\* request, and one client connection sending valid frames
NextDc ==
    \/ \E dcId \in RequestedDcIds : HandleSessionApiCreate(1, dcId)
    \/ CreateSessionDone(1)
    \/ Fetch(1)
    \/ HandleWebSocketConnection(1)
    \/ MessageListener(1, MinFrameLen)
    \/ \E i \in 1..MaxFrames : InitializeSessionDone(i)
    \/ \E i \in 1..MaxFrames : UpdateActivityDone(i)
    \/ \E i \in 1..MaxFrames : AfterHandleMTProtoMessage(i)
    \/ \E i \in 1..MaxFrames : BindSessionDone(i)
    \/ \E i \in 1..MaxFrames : ErrorReply(i)
    \/ \E k \in 1..MaxFrames : UpstreamOpen(k)

Spec == Init /\ [][Next]_vars

SpecDc == Init /\ [][NextDc]_vars

SpecControl == Init /\ [][NextControl]_vars

SpecShared == Init /\ [][NextShared]_vars

SpecTimed == Init /\ [][NextTimed]_vars

\* one use of the codec, on every input of CodecInputs
InitCodec ==
    /\ InitCore
    /\ InitGate
    /\ InitIds
    /\ InitIndex
    /\ InitSweepIdle
    /\ InitControl
    /\ InitCalc
    /\ codec \in CodecInputs

NextCodec ==
    \/ EncryptMessageCall
    \/ \E b \in 1..((MaxBodyLen + 32) \div CipherBlock + 1), j \in {1, CipherBlock} :
          AlterCiphertext(b, j)
    \/ \E n \in RawLens : TakeRawFrame(n)
    \/ DecryptMessageCall
    \/ \E declared \in 0..(MaxBodyLen + CipherBlock + 1) : ParseInnerDataCall(declared)

SpecCodec == InitCodec /\ [][NextCodec]_vars

\* the requests of one address through the gate, and the connections accepted
NextGate ==
    \/ GateTick
    \/ \E bot \in BOOLEAN : RequestArrives(bot)
    \/ \E fails \in BOOLEAN : RateLimitGet(fails)
    \/ \E fails \in BOOLEAN : RateLimitPut(fails)
    \/ \E fails \in BOOLEAN : ConnInfoGet(fails)
    \/ \E fails \in BOOLEAN : ConnInfoPut(fails)
    \/ \E fails \in BOOLEAN : SuspiciousGet(fails)
    \/ \E c \in Conns : FetchAllowed(c)
    \/ \E c \in Conns : HandleWebSocketConnection(c)

SpecGate == Init /\ [][NextGate]_vars

\* the gate, and the accepted connections being closed by their clients
NextGateClose ==
    \/ NextGate
    \/ \E c \in Conns : CloseListener(c)

SpecGateClose == Init /\ [][NextGateClose]_vars

SpecRate == Init /\ [][NextRate]_vars

SpecCipher == Init /\ [][NextCipher]_vars

SpecWire == Init /\ [][NextWire]_vars

\* calls of generateMessageId as the clock advances
NextIds ==
    \/ \E d \in 1..(MsPerSec - 1) : IdTick(d)
    \/ GenerateMessageIdCall

SpecIds == Init /\ [][NextIds]_vars

\* createSession for a user and deleteSession, by concurrent callers, as time passes
NextIndex ==
    \/ IndexTick
    \/ \E p \in Callers, userId \in Users : CreateForUserCall(p, userId)
    \/ \E p \in Callers : CreateForUserPut(p)
    \/ \E p \in Callers : CreateIndexGet(p)
    \/ \E p \in Callers : CreateIndexPut(p)
    \/ \E p \in Callers, sid \in 1..MaxIndexSessions : DeleteForUserCall(p, sid)
    \/ \E p \in Callers : DeleteForUserGet(p)
    \/ \E p \in Callers : DeleteForUserDel(p)
    \/ \E p \in Callers : DeleteIndexGet(p)
    \/ \E p \in Callers : DeleteIndexPut(p)

SpecIndex == Init /\ [][NextIndex]_vars

\* one sweep over every store of SweepStores, at every whole second up to MaxClock
InitSweep ==
    /\ clock \in {t * MsPerSec : t \in 0..MaxClock}
    /\ kv \in SweepStores(clock)
    /\ nextSid = 1
    /\ api = [p \in Callers |-> IdleCaller]
    /\ ret = NoResult
    /\ born = [s \in SessionIds |-> -1]
    /\ delIssued = [s \in SessionIds |-> FALSE]
    /\ maxSeqNo = [s \in SessionIds |-> 0]
    /\ saidInvalid = [s \in SessionIds |-> "no"]
    /\ wasValid = [s \in SessionIds |-> FALSE]
    /\ InitBridge
    /\ InitLib
    /\ InitGate
    /\ InitIds
    /\ InitIndex
    /\ InitSweepIdle
    /\ InitControl
    /\ InitCalc

NextSweep ==
    \/ \E fails \in BOOLEAN : SweepStart(fails)
    \/ \E fails \in BOOLEAN : SweepGet(fails)
    \/ \E fails \in BOOLEAN : SweepDeleteGet(fails)
    \/ \E fails \in BOOLEAN : SweepDeleteDel(fails)
    \/ SweepReturn

SpecSweep == InitSweep /\ [][NextSweep]_vars

\* reads of one caller of the session API on every store of SweepStores, the store's
\* get failing or not
NextRead ==
    \/ \E sid \in 1..MaxSweepSessions, fails \in BOOLEAN : GetSessionRead(1, sid, fails)
    \/ \E sid \in 1..MaxSweepSessions, fails \in BOOLEAN : ValidateSessionRead(1, sid, fails)
    \/ DeleteSessionGet(1)
    \/ DeleteSessionDone(1)

SpecRead == InitSweep /\ [][NextRead]_vars

\* ------------------------------------------------------------- claims

\* C6 (as claimed): under concurrent update calls for one session, the seqNo stored
\* for it is never lower than the highest seqNo stored for it before.
C6_SeqNoNeverDecreases ==
    \A s \in SessionIds :
        kv[s].rec # Null => kv[s].rec.seqNo >= maxSeqNo[s]

\* C7: validate(id) answers true while no more than the idle timeout has passed since
\* the session was created and nothing deleted it; validate answers false when the
\* record it read is idle past the timeout (or absent); and once validate has answered
\* false, with no put of the session since, the record is gone and get(id) answers absent.
C7_ValidateLifecycle ==
    /\ ret.op = "validate" =>
          /\ (/\ born[ret.sid] >= 0
              /\ ~delIssued[ret.sid]
              /\ clock - born[ret.sid] <= SessionTimeoutMs) => ret.value = "true"
          /\ (ret.seen < 0 \/ ret.at - ret.seen > SessionTimeoutMs) => ret.value = "false"
    /\ \A s \in SessionIds :
          saidInvalid[s] # "no" => GetSession(kv, s, clock) = Null
    /\ (ret.op = "get" /\ ret.afterInvalid # "no") => ret.value = "absent"

\* C7 witness: validate answered true for a session, later found it idle past the
\* timeout, deleted it and answered false, and the get that followed answered absent.
C7_Witness ==
    /\ ret.op = "get"
    /\ ret.afterInvalid = "expired"
    /\ ret.value = "absent"
    /\ wasValid[ret.sid]

\* ---------------------------------------------------- claims on the bridge
Range(seq) == {seq[j] : j \in 1..Len(seq)}

\* how many times client socket c was sent datacenter message m
DataCopies(c, m) ==
    Cardinality({j \in 1..Len(clientRecv[c]) :
                    clientRecv[c][j].kind = "data" /\ clientRecv[c][j].of = m})

\* how many error acknowledgements client socket c was sent for frame i
ErrorAcks(c, i) ==
    Cardinality({j \in 1..Len(clientRecv[c]) :
                    clientRecv[c][j].kind = "error" /\ clientRecv[c][j].of = i})

\* frame i was sent on some upstream socket
SentUpstream(i) == \E j \in 1..Len(upSent) : upSent[j][2] = i

\* the listener of frame i has ended in its catch block: the client was sent exactly
\* one error acknowledgement, unless it had closed its socket before the reply
Acknowledged(i) ==
    \/ /\ tasks[i].acked = "sent"
       /\ ErrorAcks(tasks[i].conn, i) = 1
    \/ /\ tasks[i].acked = "lost"
       /\ ws[tasks[i].conn] = "closed"
       /\ ErrorAcks(tasks[i].conn, i) = 0

C2_DeliveredOnce ==
    \A m \in 1..Len(upHandled) :
        upHandled[m].addressee # 0 => DataCopies(upHandled[m].addressee, m) = 1

\* C3: a valid frame that finds no open upstream for its session's datacenter is never
\* sent upstream, its client is sent one connection error, and no step of a message
\* listener changes the state of a client socket.
C3_Inv ==
    \A i \in 1..Len(tasks) :
        tasks[i].err = "noconn" =>
            /\ ~SentUpstream(i)
            /\ tasks[i].pc \in {"err_track", "done"}
            /\ tasks[i].pc = "done" => Acknowledged(i)

ListenersLeaveSocketsOpen == [][tasks' # tasks => ws' = ws]_vars

C3_UpstreamAbsent == []C3_Inv /\ ListenersLeaveSocketsOpen

\* C3 witness: a frame failed for want of an open upstream and was acknowledged with
\* the error, and a later frame of the same connection was forwarded.
C3_Witness ==
    \E i, j \in 1..Len(tasks) :
        /\ i < j
        /\ tasks[i].conn = tasks[j].conn
        /\ tasks[i].err = "noconn" /\ tasks[i].acked = "sent"
        /\ SentUpstream(j)

\* C4 (as claimed): every open upstream socket is the one registered for its
\* datacenter in the upstream table.
C4_NoOrphanUpstream ==
    \A k \in 1..Len(up) :
        up[k].state = "open" => telegramSockets[up[k].dc] = k

\* C5 (as claimed): frames of one connection are sent upstream in arrival order.
C5_ArrivalOrder ==
    \A a, b \in 1..Len(upSent) :
        (a < b /\ tasks[upSent[a][2]].conn = tasks[upSent[b][2]].conn)
            => upSent[a][2] < upSent[b][2]

C9_CloseTouchesOnlyItsOwn ==
    [][\A c \in Conns :
          closing'[c] # closing[c] =>
              /\ telegramSockets' = telegramSockets
              /\ up' = up
              /\ tasks' = tasks
              /\ \A d \in Conns \ {c} : d \in Range(sessions') <=> d \in Range(sessions)
              /\ \A d \in Conns \ {c} :
                    /\ ws'[d] = ws[d]
                    /\ currentSession'[d] = currentSession[d]
                    /\ closing'[d] = closing[d]
              /\ \A s \in SessionIds :
                    s # currentSession[c].sessionId => kv'[s] = kv[s]
      ]_vars

\* C9 witness: a bound connection's close listener has ended while another connection
\* is open and bound and an upstream socket is registered.
C9_Witness ==
    \E c, d \in Conns :
        /\ c # d
        /\ closing[c].pc = "done" /\ closing[c].rec # Null
        /\ ws[d] = "open" /\ currentSession[d] # Null
        /\ \E dc \in DcIds : telegramSockets[dc] # 0

\* a frame length the bridge must reject
Malformed(len) == len < MinFrameLen \/ len % FrameAlign # 0

\* C10: a frame shorter than 24 bytes or not 4-byte aligned is rejected: no session
\* is created for it, it is never sent upstream, its client is sent one error, and
\* the steps of its listener leave the store and the client sockets unchanged.
C10_Inv ==
    \A i \in 1..Len(tasks) :
        Malformed(tasks[i].len) =>
            /\ tasks[i].err = "invalid"
            /\ tasks[i].session = Null /\ tasks[i].made = 0
            /\ ~SentUpstream(i)
            /\ tasks[i].pc \in {"err_track", "done"}
            /\ tasks[i].pc = "done" => Acknowledged(i)

MalformedStepsChangeNothing ==
    [][\A i \in 1..Len(tasks') :
          (Malformed(tasks'[i].len) /\ (i > Len(tasks) \/ tasks'[i] # tasks[i])) =>
              /\ kv' = kv /\ nextSid' = nextSid
              /\ upSent' = upSent /\ up' = up
              /\ ws' = ws /\ currentSession' = currentSession
      ]_vars

C10_MalformedRejected == []C10_Inv /\ MalformedStepsChangeNothing

\* C10 witness: a too-short and a misaligned frame were each rejected with one error,
\* and a later valid frame of the same connection was taken up.
C10_Witness ==
    \E i, j, l \in 1..Len(tasks) :
        /\ i < l /\ j < l
        /\ tasks[i].conn = tasks[l].conn /\ tasks[j].conn = tasks[l].conn
        /\ tasks[i].len < MinFrameLen /\ tasks[i].acked = "sent"
        /\ tasks[j].len % FrameAlign # 0 /\ tasks[j].acked = "sent"
        /\ tasks[l].err = "none" /\ tasks[l].session # Null

\* C11 (as claimed): decrypt of a frame that encrypt made, with the same auth key,
\* succeeds and returns the message id, the sequence number and the body that were
\* given to encrypt.
C11_RoundTrip ==
    (codec.pc = "done" /\ ~codec.frame.raw /\ ~codec.altered)
        => /\ codec.out.status = "message"
           /\ codec.out.messageId = codec.messageId
           /\ codec.out.seqNo = codec.seqNo
           /\ codec.out.body = codec.body

\* C12 (as claimed): decrypt never returns a message for a frame whose ciphertext
\* was altered after encrypt; it rejects it with an integrity error.
C12_AlteredRejected ==
    (codec.pc = "done" /\ codec.altered)
        => (codec.out.status = "error" /\ codec.out.type = "INTEGRITY_ERROR")

\* C13 (as claimed): where the two directions derive different keys, decrypt (which
\* derives incoming keys) never returns a message for a frame that encrypt (which
\* derives outgoing keys) made.
C13_OppositeDirectionRejected ==
    (/\ codec.pc = "done" /\ ~codec.frame.raw /\ ~codec.altered
     /\ DeriveKeys(codec.authKey, codec.frame.messageKey, TRUE)
            # DeriveKeys(codec.authKey, codec.frame.messageKey, FALSE))
        => codec.out.status = "error"

\* C14 (as claimed): decrypt of an input shorter than 24 bytes, or of a length that
\* is not a multiple of 4, returns no message and fails with the invalid-frame
\* error kind.
C14_InvalidFrameKind ==
    (codec.pc = "done" /\ (codec.frame.len < FrameHeader \/ codec.frame.len % FrameAlign # 0))
        => (codec.out.status = "error" /\ codec.out.type = "INVALID_MESSAGE")

\* C15: a connection attempt that the gate refuses is answered with a rejection
\* response (429 or 403) and no socket is accepted for it: the refusing step leaves
\* the sockets, the listeners, the connection table, the bound sessions, the session
\* store and the message handlers as they were.
C15_RefusedHasNoSocket ==
    req.response \in {429, 403} => (req.pc = "done" /\ req.conn = 0)

RefusalStepsAcceptNothing ==
    [][(req'.response \in {429, 403} /\ req.response = 0)
          => UNCHANGED <<ws, listening, sessions, currentSession, kv, nextSid, tasks>>]_vars

C15_RefusalRejects == []C15_RefusedHasNoSocket /\ RefusalStepsAcceptNothing

C15_Witness ==
    /\ req.response = 429
    /\ req.refusedBy = "connections"
    /\ \E c \in Conns : ws[c] = "open" /\ listening[c]
    /\ \E c \in Conns : ws[c] = "none"

\* C16: a store failure during the rate-limit check or the connection-permission
\* check makes that check answer allow: a request is never refused by a check in
\* which a store operation failed.
C16_FailOpen ==
    /\ req.rlFailed => (req.refusedBy # "rate" /\ req.pc # "rl_get" /\ req.pc # "rl_put")
    /\ req.cpFailed => (req.refusedBy # "connections" /\ req.pc # "cp_get")

C16_Witness ==
    /\ req.rlFailed
    /\ req.cpFailed
    /\ req.response = 101

\* C17 (as claimed): every id generateMessageId returns is strictly greater than the
\* id its previous call returned, also within one clock tick.
C17_StrictlyIncreasing ==
    \A i \in 2..Len(msgIds) : IdLess(msgIds[i - 1], msgIds[i])

\* C18 (as claimed): a session is created with seqNo 0 and its seqNo is incremented
\* on every frame forwarded for it: once a frame was sent upstream and the session
\* update that follows it is stored, the stored seqNo is at least 1.
C18_SeqNoAdvances ==
    \A i \in 1..Len(tasks) :
        (tasks[i].pc = "msg_track" /\ SentUpstream(i))
            => kv[tasks[i].session.sessionId].rec.seqNo >= 1

\* C19 (as claimed): once deleteSession(sessionId) has returned for a session created
\* with a userId, getSession(sessionId) returns null and the user's session index
\* does not contain sessionId.
C19_DeleteClearsIndex ==
    \A s \in SessionIds :
        deleted[s] => /\ GetSession(kv, s, clock) = Null
                      /\ ~Includes(IndexGet(userOf[s], clock).ids, s)

\* C20 (as claimed): the sweep returns the number of records it removed, also when
\* a store error ends it; a sweep that met no store error has removed exactly the
\* records idle past the timeout when it started and left the others in place.
C20_SweepExactAndCounted ==
    sweep.pc = "done"
        => /\ sweep.result = Cardinality(sweep.removed)
           /\ ~sweep.failed => /\ sweep.removed = sweep.expired
                               /\ \A s \in sweep.kept : kv[s] # Absent

\* C23 (as claimed): a frame that has been handed to the upstream, and whose session's
\* activity is being updated, belongs to a connection bound to that very session; and
\* the handling of one frame creates no more than one session.
C23_ForwardedSessionIsBound ==
    \A i \in 1..Len(tasks) :
        /\ tasks[i].made <= 1
        /\ tasks[i].pc \in {"upd_put", "msg_track"} =>
              /\ currentSession[tasks[i].conn] # Null
              /\ currentSession[tasks[i].conn].sessionId = tasks[i].session.sessionId

\* C24 (as claimed): a valid frame whose listener has ended was sent upstream exactly
\* once, the first frame of a fresh session included.
C24_ForwardedExactlyOnce ==
    \A i \in 1..Len(tasks) :
        (tasks[i].pc = "done" /\ ValidateMTProtoMessage(tasks[i].len)) =>
            Cardinality({j \in 1..Len(upSent) : upSent[j][2] = i}) = 1

\* C30 (as claimed): once a client socket is closed and its close handling is over,
\* the connection table holds no entry for it.
C30_NoEntryAfterClose ==
    \A c \in Conns :
        (ws[c] = "closed" /\ closing[c].pc # "put") => c \notin Range(sessions)

\* the number of padding bytes in the frame encryptMessage made from the caller's body
PaddingOf(c) == Len(c.frame.encrypted.plain) - (Len(ServerSalt) + 24 + Len(c.body))

\* C27: whatever the body length, encrypt pads the inner message with 1 to 16 bytes to
\* a multiple of 16, and the frame it returns (8-byte key id, 16-byte message key,
\* ciphertext) is at least 24 bytes long, a multiple of 4 and passes the bridge's
\* frame validation.
C27_PaddingAndFrameShape ==
    (codec.pc \in {"framed", "done"} /\ ~codec.frame.raw) =>
        /\ PaddingOf(codec) \in 1..CipherBlock
        /\ Len(codec.frame.encrypted.plain) % CipherBlock = 0
        /\ codec.frame.len = 8 + 16 + Len(codec.frame.encrypted.plain)
        /\ codec.frame.len >= MinFrameLen
        /\ codec.frame.len % FrameAlign = 0
        /\ ValidateMTProtoMessage(codec.frame.len)

\* C27 witness: encrypt has framed a body whose inner message already ends on a
\* 16-byte boundary, and added a full block of padding.
C27_Witness ==
    /\ codec.pc = "framed"
    /\ ~codec.frame.raw
    /\ Len(codec.body) = CipherBlock
    /\ PaddingOf(codec) = CipherBlock

\* C28: every stored session record expires at least twice the idle timeout after its
\* lastActivity, so a record whose lastActivity is within the idle timeout of the
\* current time is still read from the store: TTL expiry never removes it.
C28_TtlCoversIdleTimeout ==
    \A s \in SessionIds :
        kv[s].rec # Null =>
            /\ kv[s].exp >= kv[s].rec.lastActivity + 2 * SessionTimeoutMs
            /\ (clock - kv[s].rec.lastActivity <= SessionTimeoutMs)
                  => GetSession(kv, s, clock) = kv[s].rec

\* C28 witness: a stored session has been idle for exactly the idle timeout and the
\* store still returns it.
C28_Witness ==
    \E s \in SessionIds :
        /\ kv[s].rec # Null
        /\ clock - kv[s].rec.lastActivity = SessionTimeoutMs
        /\ GetSession(kv, s, clock) = kv[s].rec

\* C26 (as claimed): parsing decrypted bytes whose length field exceeds the bytes that
\* follow the 32-byte header is rejected with an error, and the parser never returns
\* a body shorter than the declared length.
C26_OversizedLengthRejected ==
    codec.pc = "parsed" =>
        /\ codec.out.status = "message" => Len(codec.out.body) >= codec.declared
        /\ codec.declared > Len(InnerDataDeclaring(codec, codec.declared)) - 32
              => codec.out.status = "error"

\* C29 (as claimed): a read whose store get failed is reported to the caller as an
\* error, never as an absent session (get) or as an invalid one (validate).
C29_ReadFailureIsError ==
    ret.op \in {"get_failed", "validate_failed"} => ret.value = "error"

\* the copy of a session that the bridge hands to updateSession is what a read of the
\* store gives at that moment, with the new lastActivity
FreshCopy(copy, store) ==
    LET read == GetSession(store, copy.sessionId, clock)
    IN  read # Null /\ copy = [read EXCEPT !.lastActivity = copy.lastActivity]

\* C25 (as claimed): whenever the bridge starts a write-back of a session, for a
\* forwarded frame or in the close listener, the copy it writes is the record the
\* store holds then, not one it kept from before an earlier suspension point.
C25_WritesBackFreshCopies ==
    [][/\ \A c \in Conns :
             (closing[c].pc # "put" /\ closing'[c].pc = "put")
                 => FreshCopy(closing'[c].rec, kv')
       /\ \A i \in 1..Len(tasks') :
             (tasks'[i].pc = "upd_put" /\ (i > Len(tasks) \/ tasks[i].pc # "upd_put"))
                 => FreshCopy(tasks'[i].session, kv')]_vars

\* C21 (as claimed): a textual control frame whose listener has ended was answered
\* with exactly one reply, of type pong, stats, session_info or error.
C21_OneReplyPerControlFrame ==
    \A j \in 1..Len(ctl) :
        ctl[j].pc = "done" =>
            /\ Len(ctl[j].replies) = 1
            /\ ctl[j].replies[1] \in {"pong", "stats", "session_info", "error"}

\* C22: a control frame in whose handling the telemetry sink failed ends with the
\* same replies as a frame of the same kind, with the same store outcome, in whose
\* handling the sink did not fail.
C22_TelemetryFailureChangesNothing ==
    \A j, k \in 1..Len(ctl) :
        (/\ ctl[j].pc = "done" /\ ctl[k].pc = "done"
         /\ ctl[j].kind = ctl[k].kind
         /\ ctl[j].storeFailed = ctl[k].storeFailed
         /\ ctl[j].trackFailed /\ ~ctl[k].trackFailed)
            => ctl[j].replies = ctl[k].replies

\* C22 witness: two ping frames have been handled, the sink failed for one of them
\* only, and both were answered with one pong.
C22_Witness ==
    \E j, k \in 1..Len(ctl) :
        /\ ctl[j].pc = "done" /\ ctl[k].pc = "done"
        /\ ctl[j].kind = "ping" /\ ctl[k].kind = "ping"
        /\ ctl[j].trackFailed /\ ~ctl[k].trackFailed
        /\ ctl[j].replies = <<"pong">>
        /\ ctl[k].replies = <<"pong">>

\* C34 (as claimed): a client connection creates at most one session record in the
\* store over its lifetime: the store never holds more session records than client
\* connections were accepted.
C34_OneSessionPerConnection ==
    Cardinality({s \in SessionIds : kv[s].rec # Null})
        <= Cardinality({c \in Conns : ws[c] # "none"})

\* every registered upstream socket is open
RegisteredAreOpen ==
    \A dc \in DcIds :
        telegramSockets[dc] # 0 => up[telegramSockets[dc]].state = "open"

\* C38 (as claimed): an upstream socket is registered only while it is open, and the
\* close or error event of one upstream socket removes only that socket from the
\* table: a different, still open socket registered for the datacenter stays.
C38_UpstreamRemovesOnlyItself ==
    [][/\ RegisteredAreOpen'
       /\ \A dc \in DcIds :
             LET k == telegramSockets[dc] IN
               (/\ k # 0
                /\ up[k].state = "open" /\ up'[k].state = "open"
                /\ \E j \in 1..Len(up) :
                      j # k /\ up[j].state # "closed" /\ up'[j].state = "closed")
                   => telegramSockets'[dc] = k]_vars

\* C35 (as claimed): once a session has been removed from the store, get returns
\* absent for it from then on: no later action of the bridge on a connection that
\* still holds the session makes the record reappear.
C35_RemovedStaysAbsent ==
    \A s \in SessionIds : delIssued[s] => GetSession(kv, s, clock) = Null

\* C36 (as claimed): when validateSession removes a session as expired, the record it
\* removes is idle for longer than the timeout at that moment: an update that landed
\* between its expiry check and its delete is not lost.
C36_DeletesOnlyExpired ==
    [][\A p \in Callers :
          (/\ api[p].pc = "del_kv" /\ api[p].op = "validate"
           /\ api'[p].pc = "idle"
           /\ kv[api[p].sid].rec # Null)
              => IsExpired(kv[api[p].sid].rec, clock)]_vars

\* C37 (as claimed): for every userId given to createSession, 0 included, once the
\* create has returned, getUserSessions(userId) returns the session for as long as
\* its record is in the store, also when creates for the same user ran concurrently.
C37_UserSessionsListed ==
    \A s \in SessionIds :
        (/\ userOf[s] # -1
         /\ \A q \in Callers : idx[q].sid # s
         /\ GetSession(kv, s, clock) # Null)
            => Includes(GetUserSessions(userOf[s], clock), s)

\* C31 (as claimed): every session record in the store has a dcId in 1..5, whatever
\* create requests the session API served and whatever sessions the bridge created.
C31_StoredDcIdInRange ==
    \A s \in SessionIds : kv[s].rec # Null => kv[s].rec.dcId \in DcIds

\* the client connections of the address that are open
OpenConnections == {c \in Conns : ws[c] = "open"}

\* C39 (as claimed): the connection count the permission check uses is the number of
\* open connections of the address: a request is refused for its connection count
\* only while MAX_CONNECTIONS_PER_IP connections of the address are open.
C39_RefusedOnlyAtMaximum ==
    (req.pc = "done" /\ req.refusedBy = "connections")
        => Cardinality(OpenConnections) >= MAX_CONNECTIONS_PER_IP

\* C32: within one window, the checks of one address that met no store failure
\* admit at most RATE_LIMIT_RPM requests, however their gets and puts interleave
C32_AdmitsAtMostLimit ==
    Cardinality({p \in RateCallers : checks[p].pc = "done" /\ checks[p].allowed
                                     /\ ~checks[p].failed})
        <= RATE_LIMIT_RPM

\* the reference chaining: c_i = E(p_i XOR c_{i-1}) XOR p_{i-1}
RECURSIVE IgeEncrypt(_, _, _, _)
IgeEncrypt(data, key, prevC, prevP) ==
    IF data = << >> THEN << >>
    ELSE LET c == Xor(AesBlock(key, Xor(Head(data), prevC)), prevP)
         IN  <<c>> \o IgeEncrypt(Tail(data), key, c, Head(data))

\* C33: what aesIgeEncrypt returns is the IGE chaining of the blocks, seeded by
\* the two halves of the iv
C33_EncryptIsIge ==
    cipher.pc # "idle"
        => cipher.out = IgeEncrypt(cipher.data, cipher.key, cipher.iv[1], cipher.iv[2])

\* C40: the four bytes createInnerData writes for a value are read back by
\* parseInnerData as the same non-negative number
C40_UInt32RoundTrip ==
    wire.pc = "parsed"
        => /\ wire.parsed >= 0
           /\ wire.parsed \div 65536 = wire.hi
           /\ wire.parsed % 65536 = wire.lo

====
